---- MODULE Spec2Model ----
(***************************************************************************)
(* Verification model of the idea-quality scoring pipeline of ObliQ:       *)
(* OpenRouterService (validateIdeaQuality, calculateBalancedScore,         *)
(* calculateBalancedMaturityScore, processIdeaWithAI, fallbackProcessing,  *)
(* generateExpandedIdeas), MemoryService.findIdeaByQuery and               *)
(* ClusteringService.findClusters.                                         *)
(*                                                                         *)
(* Input text is a sequence of phrases joined by single blanks.  Every     *)
(* phrase is a fixed lower-case string whose measurements (length,         *)
(* non-blank characters, words, longest run of one character, the          *)
(* keywords it contains in order of occurrence) are tabulated in Phrases.  *)
(* A regular expression  a.*b.*c  of the source is a sequence of keyword   *)
(* alternatives matched as a subsequence of the text's keywords.           *)
(***************************************************************************)
EXTENDS Integers, Sequences, FiniteSets, TLC

(* Longest input, in phrases. *)
MaxPhrases == 2

(* Longest idea list handed to the similarity index. *)
MaxIdeas == 3

(* ---------------------------------------------------------------------- *)
(* Text                                                                    *)
(* ---------------------------------------------------------------------- *)

ExpandPrefix == "please expand this rough idea into a comprehensive concept:"

Phrases ==
  { [txt |-> "buy high", len |-> 8, chars |-> 7, words |-> 2, run |-> 1,
     stop |-> FALSE, atoms |-> <<"buy", "high">>],
    [txt |-> "sell low", len |-> 8, chars |-> 7, words |-> 2, run |-> 2,
     stop |-> FALSE, atoms |-> <<"sell", "low">>],
    [txt |-> "i want to open a bakery", len |-> 23, chars |-> 18, words |-> 6, run |-> 1,
     stop |-> FALSE, atoms |-> <<"want", "open", "bakery">>],
    [txt |-> "in islamabad", len |-> 12, chars |-> 11, words |-> 2, run |-> 1,
     stop |-> FALSE, atoms |-> <<"in islamabad", "islamabad">>],
    [txt |-> "open gym", len |-> 8, chars |-> 7, words |-> 2, run |-> 1,
     stop |-> FALSE, atoms |-> <<"open", "gym">>],
    [txt |-> "shop", len |-> 4, chars |-> 4, words |-> 1, run |-> 1,
     stop |-> FALSE, atoms |-> <<"shop">>],
    [txt |-> "a b c d e f g h i j k l m n o p q", len |-> 33, chars |-> 17, words |-> 17, run |-> 1,
     stop |-> FALSE, atoms |-> <<>>],
    [txt |-> "zzzzzz", len |-> 6, chars |-> 6, words |-> 1, run |-> 6,
     stop |-> FALSE, atoms |-> <<>>],
    [txt |-> "zzzzzzz", len |-> 7, chars |-> 7, words |-> 1, run |-> 7,
     stop |-> FALSE, atoms |-> <<>>],
    [txt |-> "to help people.", len |-> 15, chars |-> 13, words |-> 3, run |-> 1,
     stop |-> TRUE, atoms |-> <<"help", "people">>],
    [txt |-> "hi", len |-> 2, chars |-> 2, words |-> 1, run |-> 1,
     stop |-> FALSE, atoms |-> <<>>],
    [txt |-> ExpandPrefix, len |-> 59, chars |-> 51, words |-> 9, run |-> 1,
     stop |-> FALSE, atoms |-> <<"expand this rough idea">>] }

Vocabulary == { p.txt : p \in Phrases }

(* words that differ in their longest run of one character alone *)
RunPhrases ==
  { [txt |-> "zzzz", len |-> 4, chars |-> 4, words |-> 1, run |-> 4,
     stop |-> FALSE, atoms |-> <<>>],
    [txt |-> "zzzzz", len |-> 5, chars |-> 5, words |-> 1, run |-> 5,
     stop |-> FALSE, atoms |-> <<>>] }

Info(w) == CHOOSE p \in Phrases \cup RunPhrases : p.txt = w

SeqsUpTo(S, n) == UNION { [1..k -> S] : k \in 0..n }

Texts == SeqsUpTo(Vocabulary, MaxPhrases)

RECURSIVE SumOver(_, _)
SumOver(t, field) ==
  IF t = <<>> THEN 0
  ELSE (CASE field = "len" -> Info(Head(t)).len
          [] field = "chars" -> Info(Head(t)).chars
          [] field = "words" -> Info(Head(t)).words) + SumOver(Tail(t), field)

(* text.length of the phrases joined by single blanks *)
Length(t) == IF t = <<>> THEN 0 ELSE SumOver(t, "len") + (Len(t) - 1)

(* text.replace(/\s/g, '').length *)
NonBlankLength(t) == SumOver(t, "chars")

(* variant: the empty text counted as no word at all *)
WordCount_NoWord(t) == SumOver(t, "words")

(* text.split(/\s+/).length: the empty string splits into one empty word *)
WordCount(t) == IF t = <<>> THEN 1 ELSE SumOver(t, "words")

RECURSIVE LongestRun(_)
LongestRun(t) ==
  IF t = <<>> THEN 0
  ELSE LET r == LongestRun(Tail(t))
       IN IF Info(Head(t)).run > r THEN Info(Head(t)).run ELSE r

RECURSIVE Atoms(_)
Atoms(t) == IF t = <<>> THEN <<>> ELSE Info(Head(t)).atoms \o Atoms(Tail(t))

(* text.includes(word) *)
Includes(t, word) == \E i \in 1..Len(Atoms(t)) : Atoms(t)[i] = word

IncludesAny(t, wordSet) == \E i \in 1..Len(Atoms(t)) : Atoms(t)[i] \in wordSet

(* pattern.test(text) for a pattern  alt1.*alt2.*...  given as the sequence *)
(* of its alternatives: the leftmost match of each alternative in turn     *)
RECURSIVE MatchFrom(_, _)
MatchFrom(as, pat) ==
  IF pat = <<>> THEN TRUE
  ELSE IF as = <<>> THEN FALSE
  ELSE IF Head(as) \in Head(pat) THEN MatchFrom(Tail(as), Tail(pat))
  ELSE MatchFrom(Tail(as), pat)

Test(pat, t) == MatchFrom(Atoms(t), pat)

(* sentences[0].split(' ').length, 0 when there is no sentence *)
RECURSIVE FirstSentenceWords(_)
FirstSentenceWords(t) ==
  IF t = <<>> THEN 0
  ELSE IF Info(Head(t)).stop THEN Info(Head(t)).words
  ELSE Info(Head(t)).words + FirstSentenceWords(Tail(t))

(* ---------------------------------------------------------------------- *)
(* OpenRouterService.validateIdeaQuality                                   *)
(* ---------------------------------------------------------------------- *)

nonsensicalPatterns ==
  { <<{"buy"}, {"high"}, {"sell"}, {"low"}>>,
    <<{"purchase"}, {"expensive"}, {"sell"}, {"cheap"}>>,
    <<{"lose"}, {"money"}, {"intentionally"}>>,
    <<{"guaranteed"}, {"loss"}>>,
    <<{"negative"}, {"profit"}, {"always"}>>,
    <<{"burn"}, {"money"}, {"purpose"}>>,
    <<{"free"}, {"everything"}, {"forever"}>>,
    <<{"infinite"}, {"money"}, {"no"}, {"work"}>>,
    <<{"time"}, {"travel"}, {"business"}>>,
    <<{"perpetual"}, {"motion"}, {"machine"}>>,
    <<{"qwerty"}, {"asdf"}, {"zxcv"}>>,
    <<{"123456789"}, {"abcdefgh"}>>,
    <<{"random"}, {"gibberish"}, {"test"}, {"test"}>> }

(* /(.)\1{6,}/ : one character followed by six or more copies of itself *)
HasRepeatedRun(t, copies) == LongestRun(t) >= copies + 1

MatchesNonsensical(t) ==
  \/ \E pat \in nonsensicalPatterns : Test(pat, t)
  \/ HasRepeatedRun(t, 6)

Storefronts == {"restaurant", "bakery", "cafe", "shop", "store", "salon", "gym", "clinic"}

Purposes == {"help", "solve", "manage", "organize", "connect"}

legitimateBusinessPatterns ==
  { <<{"start"}, Storefronts>>,
    <<{"open"}, Storefronts>>,
    <<Storefronts, {"business"}>>,
    <<{"consulting"}, {"service"}>>,
    <<{"cleaning"}, {"service"}>>,
    <<{"delivery"}, {"service"}>>,
    <<{"tutoring"}, {"service"}>>,
    <<{"repair"}, {"service"}>>,
    <<{"app"}, Purposes>>,
    <<{"platform"}, Purposes>>,
    <<{"website"}, Purposes>>,
    <<{"software"}, Purposes>>,
    <<{"online"}, {"store", "shop", "marketplace"}>>,
    <<{"sell"}, {"products", "services"}, {"online"}>>,
    <<{"e-commerce"}, {"platform", "store"}>>,
    <<{"online"}, {"course", "training", "education"}>>,
    <<{"teach"}, {"people", "students", "professionals"}>>,
    <<{"learning"}, {"platform"}>> }

MatchesLegitimate(t) == \E pat \in legitimateBusinessPatterns : Test(pat, t)

Cities == {"islamabad", "karachi", "lahore", "delhi", "mumbai", "bangalore", "london",
           "new york", "dubai", "singapore", "toronto", "sydney"}

InCity == {"in islamabad", "in karachi", "in lahore", "in delhi", "in mumbai",
           "in bangalore", "in london", "in new york", "in dubai", "in singapore",
           "in toronto", "in sydney"}

locationPatterns == { <<InCity>>, <<Cities, {"area", "city", "market"}>> }

MatchesLocation(t) == \E pat \in locationPatterns : Test(pat, t)

businessIndicators ==
  {"customer", "market", "sell", "buy", "service", "product", "revenue", "profit",
   "business", "startup", "company", "people", "help", "solve", "need", "want", "provide"}

problemWords == {"problem", "issue", "difficult", "hard", "frustrating", "need", "want", "lack"}

solutionWords == {"solve", "help", "provide", "offer", "create", "build", "make"}

FoodWords == {"bakery", "restaurant", "cafe"}

Max(a, b) == IF a > b THEN a ELSE b

Min(a, b) == IF a < b THEN a ELSE b

IssueFlawed == "This appears to be a fundamentally flawed or nonsensical business concept"

IssueShort == "Idea is too short and lacks detail"

IssueGibberish == "Input appears to contain gibberish"

(* Math.floor(Math.random() * 13) + 3 with rnd = Math.floor(Math.random() * 13) *)
RandomDraws == 0..12

(* variant: the draw shifted by 5, scores 5 to 17 *)
NonsensicalScore_Shifted(rnd) == rnd + 5

NonsensicalScore(rnd) == rnd + 3

(* Math.random() is called on the early return alone: only there does the *)
(* verdict depend on a draw                                               *)
DrawsFor(input) == IF MatchesNonsensical(input) THEN RandomDraws ELSE {0}

(* STEP 8: boost of legitimate businesses *)
BoostLegitimate(score, t, isNonsensical, isLegitimate) ==
  IF isLegitimate /\ ~isNonsensical
  THEN LET s == Max(score, 55)
       IN IF IncludesAny(t, FoodWords) THEN Max(s, 65) ELSE s
  ELSE score

(* "Apply bounds" *)
ApplyBounds(score, isNonsensical, isLegitimate) ==
  IF isNonsensical THEN Min(score, 15)
  ELSE IF isLegitimate THEN Max(55, Min(85, score))
  ELSE Max(15, Min(75, score))

(* STEP 7: gibberish check on the accumulated score.  avgWordLength is     *)
(* chars / words, so avgWordLength < 2 is chars < 2 * words and            *)
(* avgWordLength < 1.5 is 2 * chars < 3 * words.                           *)
(* variant: every text the gibberish check catches is flagged nonsensical *)
GibberishCheck_Eager(score, t) ==
  IF HasRepeatedRun(t, 5) \/ NonBlankLength(t) < 2 * WordCount(t)
  THEN [score |-> 8, issues |-> <<IssueGibberish>>, isNonsensical |-> TRUE]
  ELSE [score |-> score, issues |-> <<>>, isNonsensical |-> FALSE]

GibberishCheck(score, t) ==
  LET chars == NonBlankLength(t)
      words == WordCount(t)
      hasExcessiveRepeats == HasRepeatedRun(t, 5)
  IN IF hasExcessiveRepeats \/ chars < 2 * words
     THEN IF 2 * chars < 3 * words
          THEN [score |-> 8, issues |-> <<IssueGibberish>>, isNonsensical |-> TRUE]
          ELSE [score |-> score - 30, issues |-> <<IssueGibberish>>, isNonsensical |-> FALSE]
     ELSE [score |-> score, issues |-> <<>>, isNonsensical |-> FALSE]

(* STEPS 2 to 6: the score accumulated before the gibberish check *)
AccumulatedScore(text) ==
  50 + (IF MatchesLegitimate(text) THEN 20 ELSE 0)
     + (IF MatchesLocation(text) THEN 15 ELSE 0)
     + (IF Length(text) < 10 THEN -25 ELSE IF Length(text) > 30 THEN 10 ELSE 0)
     + (IF FirstSentenceWords(text) >= 4 THEN 10 ELSE 0)
     + (IF IncludesAny(text, businessIndicators) THEN 10 ELSE 0)
     + (IF IncludesAny(text, problemWords) /\ IncludesAny(text, solutionWords) THEN 15 ELSE 0)

(* STEP 8 and the returned object, from the outcome g of the gibberish check *)
FinalVerdict(text, g, isLegitimate, qualityScore) ==
  [isValid |-> qualityScore >= 25 /\ ~g.isNonsensical,
   issues |-> (IF Length(text) < 10 THEN <<IssueShort>> ELSE <<>>) \o g.issues,
   qualityScore |-> qualityScore,
   isNonsensical |-> g.isNonsensical,
   isLegitimate |-> isLegitimate]

(* variant: one band 15 to 75 for every text, no boost of legitimate ones *)
ScoredVerdict_OneBand(text, g, isLegitimate) ==
  FinalVerdict(text, g, isLegitimate,
               IF g.isNonsensical THEN Max(3, Min(15, g.score))
               ELSE Max(15, Min(75, g.score)))

ScoredVerdict(text, g, isLegitimate) ==
  FinalVerdict(text, g, isLegitimate,
               ApplyBounds(BoostLegitimate(g.score, text, g.isNonsensical, isLegitimate),
                           g.isNonsensical, isLegitimate))

(* input.toLowerCase().trim(): the phrases are lower case and joined trimmed *)
validateIdeaQuality(input, rnd) ==
  IF MatchesNonsensical(input)
  THEN [isValid |-> FALSE, issues |-> <<IssueFlawed>>,
        qualityScore |-> NonsensicalScore(rnd),
        isNonsensical |-> TRUE, isLegitimate |-> FALSE]
  ELSE ScoredVerdict(input, GibberishCheck(AccumulatedScore(input), input),
                     MatchesLegitimate(input) \/ MatchesLocation(input))

(* ---------------------------------------------------------------------- *)
(* The external assessment (the parsed reply of the model)                 *)
(* ---------------------------------------------------------------------- *)

(* "other" stands for a field that is absent or holds an unrecognised value *)
Legitimacies == {"legitimate", "nonsensical", "other"}

MarketDemands == {"high", "nonexistent", "other"}

Profitabilities == {"high", "impossible", "other"}

Viabilities == {"excellent", "terrible", "other"}

BusinessAssessments ==
  [legitimacy : Legitimacies, marketDemand : MarketDemands,
   profitabilityPotential : Profitabilities, overallViability : Viabilities]

NoAssessment == [absent |-> TRUE]

(* aiResponse.businessAssessment: an assessment object, or absent *)
(* number of entries of aiResponse.suggestions (0 when it is no array) *)
AISuggestionCounts == {0, 2}

AIResponses == [businessAssessment : BusinessAssessments \cup {NoAssessment},
                suggestions : AISuggestionCounts]

(* ---------------------------------------------------------------------- *)
(* OpenRouterService.calculateBalancedScore                                *)
(* ---------------------------------------------------------------------- *)

ProvenModelWords == {"bakery", "restaurant", "cafe", "shop"}

(* "Apply AI business assessment" *)
ApplyAssessment(score, assessment) ==
  LET a1 == IF assessment.legitimacy = "legitimate" THEN Max(score, 55)
            ELSE IF assessment.legitimacy = "nonsensical" THEN Min(score, 15)
            ELSE score
      a2 == IF assessment.marketDemand = "high" THEN a1 + 10
            ELSE IF assessment.marketDemand = "nonexistent" THEN a1 - 20
            ELSE a1
      a3 == IF assessment.profitabilityPotential = "high" THEN a2 + 8
            ELSE IF assessment.profitabilityPotential = "impossible" THEN Min(a2, 10)
            ELSE a2
      a4 == IF assessment.overallViability = "excellent" THEN a3 + 10
            ELSE IF assessment.overallViability = "terrible" THEN Min(a3, 15)
            ELSE a3
  IN a4

(* "FINAL BOUNDS based on legitimacy" *)
(* variant: legitimate ideas share the band of the others *)
FinalBounds_NoLegitimateBand(score, validation) ==
  IF validation.isNonsensical THEN Max(3, Min(15, score))
  ELSE Max(20, Min(75, score))

FinalBounds(score, validation) ==
  IF validation.isNonsensical THEN Max(3, Min(15, score))
  ELSE IF validation.isLegitimate THEN Max(55, Min(85, score))
  ELSE Max(20, Min(75, score))

calculateBalancedScore(aiResponse, validation, originalInput) ==
  IF validation.isNonsensical THEN Min(15, validation.qualityScore)
  ELSE LET base == validation.qualityScore
           boosted == IF validation.isLegitimate
                      THEN IF IncludesAny(originalInput, ProvenModelWords)
                           THEN Max(Max(base, 55), 65)
                           ELSE Max(base, 55)
                      ELSE base
           assessment == aiResponse.businessAssessment
           assessed == IF assessment # NoAssessment
                       THEN ApplyAssessment(boosted, assessment)
                       ELSE boosted
           penalised == IF Len(validation.issues) > 0 /\ ~validation.isLegitimate
                        THEN assessed - Len(validation.issues) * 5
                        ELSE assessed
       IN FinalBounds(penalised, validation)

(* ---------------------------------------------------------------------- *)
(* OpenRouterService.calculateStructureScore, calculateBalancedMaturityScore *)
(* ---------------------------------------------------------------------- *)

(* An idea as far as its structure is scored: whether the title and the    *)
(* description pass their tests, and the sizes of its lists.               *)
IdeaShapes ==
  { [titleOk |-> FALSE, descLong |-> FALSE, painPoints |-> 0, features |-> 0,
     userPersonas |-> 0, tags |-> 0],
    [titleOk |-> TRUE, descLong |-> FALSE, painPoints |-> 2, features |-> 2,
     userPersonas |-> 1, tags |-> 3],
    [titleOk |-> TRUE, descLong |-> TRUE, painPoints |-> 3, features |-> 4,
     userPersonas |-> 2, tags |-> 3] }

calculateStructureScore(idea) ==
  Min(10 + (IF idea.titleOk THEN 15 ELSE 0)
         + (IF idea.descLong THEN 15 ELSE 0)
         + (IF idea.painPoints >= 2 THEN 20 ELSE 0)
         + (IF idea.features >= 3 THEN 20 ELSE 0)
         + (IF idea.userPersonas >= 2 THEN 15 ELSE 0)
         + (IF idea.tags >= 3 THEN 5 ELSE 0), 70)

(* Self-reported numeric scores; 0 is the value the code treats as absent  *)
(* (analysis.score || 40).                                                 *)
ReportedScores == {-50, 0, 1, 40, 71, 100, 5000}

MarketSizes == {"large", "other"}

NoMarketPotential == [absent |-> TRUE]

MarketPotentials == [score : {0, 71}, marketSize : MarketSizes]

Analyses == [score : ReportedScores, marketPotential : {NoMarketPotential} \cup MarketPotentials]

OrDefault(value, default) == IF value = 0 THEN default ELSE value

(* variant: the upper limits alone *)
MaturityBounds_NoFloor(score, validation) ==
  IF validation.isNonsensical THEN Min(15, score)
  ELSE IF validation.isLegitimate THEN Min(85, score)
  ELSE Min(80, score)

MaturityBounds(score, validation) ==
  IF validation.isNonsensical THEN Max(5, Min(15, score))
  ELSE IF validation.isLegitimate THEN Max(50, Min(85, score))
  ELSE Max(25, Min(80, score))

calculateBalancedMaturityScore(analysis, validation, structureScore) ==
  IF validation.isNonsensical THEN Min(15, validation.qualityScore)
  ELSE LET capped == Min(OrDefault(analysis.score, 40), 85)
           boosted == IF validation.isLegitimate THEN Max(capped, 50) ELSE capped
           structured == IF structureScore > 60 THEN boosted + 5
                         ELSE IF structureScore < 30 THEN boosted - 10
                         ELSE boosted
           mp == analysis.marketPotential
           m1 == IF mp # NoMarketPotential /\ mp.score > 70 THEN structured + 5 ELSE structured
           m2 == IF mp # NoMarketPotential /\ mp.marketSize = "large" THEN m1 + 5 ELSE m1
       IN MaturityBounds(m2, validation)

(* ---------------------------------------------------------------------- *)
(* State                                                                    *)
(* ---------------------------------------------------------------------- *)

VARIABLES
  apiKey,      \* OpenRouterService.API_KEY: "missing", "malformed" or "valid"
  pc,          \* position of the running operation
  rawInput,    \* the text submitted
  validation,  \* the verdict of validateIdeaQuality on the text
  reply,       \* how the awaited external call settled
  requests,    \* fetch calls issued to the external endpoint
  result,      \* what the operation returned
  ideas,       \* the idea list handed to MemoryService / ClusteringService
  query,       \* the query of findIdeaByQuery
  search,      \* what fuse.search returned
  clusters,    \* the clusters findClusters returned
  ideaData,    \* the idea handed to analyzeMaturity / analyzeIdeaMaturity
  maturityReply, \* how the external call of analyzeIdeaMaturity settled
  analysis,    \* what analyzeIdeaMaturity returned
  stored,      \* useEnhancedIdeas: the idea collection (state and localStorage)
  written,     \* the collection the completed writes yield, applied in order
  adding,      \* the addIdea call awaiting processNewIdea, with the ideas it closed over
  recomputing, \* findClusters calls waiting on their timer, oldest first
  clusteredFrom, \* the collection the stored clusters were computed from
  nextId,      \* ids handed out so far, plus one
  content,     \* data.choices[0].message.content, as a sequence of tokens
  site,        \* which of the three parse sites reads the content
  jsonString,  \* the span handed to JSON.parse
  parseOutcome, \* what JSON.parse did with it
  newIdeas,    \* the collection handed to saveIdeas
  savedIdeas,  \* localStorage under STORAGE_KEY: the serialised collection
  parsedIdeas, \* the collection the load effect hands to setIdeas
  notifications, \* NotificationService: the list stored under NOTIFICATIONS_KEY
  created,     \* notifications created so far
  ui,          \* App: the useState values the views are rendered from
  inFlight,    \* App: the submissions whose handler is waiting on an await
  submissions  \* App: ideas submitted so far

vars == <<apiKey, pc, rawInput, validation, reply, requests, result,
          ideas, query, search, clusters, ideaData, maturityReply, analysis,
          stored, written, adding, recomputing, clusteredFrom, nextId,
          content, site, jsonString, parseOutcome,
          newIdeas, savedIdeas, parsedIdeas, notifications, created,
          ui, inFlight, submissions>>

indexVars == <<ideas, query, search, clusters>>

pipelineVars == <<apiKey, rawInput, validation, reply, requests>>

appVars == <<ideaData, maturityReply, analysis>>

hookVars == <<stored, written, adding, recomputing, clusteredFrom, nextId>>

parseVars == <<content, site, jsonString, parseOutcome>>

storeVars == <<newIdeas, savedIdeas, parsedIdeas>>

notifyVars == <<notifications, created>>

viewVars == <<ui, inFlight, submissions>>

(* the App component is not rendered *)
ViewUnused ==
  /\ ui = [absent |-> TRUE]
  /\ inFlight = {}
  /\ submissions = 0

(* no notification has been stored *)
NotifyUnused ==
  /\ notifications = <<>>
  /\ created = 0

(* nothing has been saved or loaded *)
StoreUnused ==
  /\ newIdeas = <<>>
  /\ savedIdeas = [absent |-> TRUE]
  /\ parsedIdeas = <<>>

(* no reply text is being read *)
ParseUnused ==
  /\ content = <<>>
  /\ site = "none"
  /\ jsonString = <<>>
  /\ parseOutcome = "none"

(* the hook before it is mounted *)
HookUnused ==
  /\ stored = <<>>
  /\ written = <<>>
  /\ adding = [absent |-> TRUE]
  /\ recomputing = <<>>
  /\ clusteredFrom = <<>>
  /\ nextId = 1

Undefined == [absent |-> TRUE]

NoResult == [status |-> "pending"]

NoReply == [kind |-> "none"]

(* ---------------------------------------------------------------------- *)
(* OpenRouterService: suggestions, fallbackProcessing, expansion            *)
(* ---------------------------------------------------------------------- *)

Take(s, n) == IF Len(s) <= n THEN s ELSE SubSeq(s, 1, n)

Repeat(x, n) == [i \in 1..n |-> x]

(* the types of the suggestions returned *)
generateBalancedSuggestions(response, v, finalScore) ==
  LET first == IF v.isNonsensical \/ finalScore < 20 THEN <<"critical">>
               ELSE IF v.isLegitimate /\ finalScore >= 55 THEN <<"improvement", "expansion">>
               ELSE <<"structure">>
      fromAI == Repeat("improvement", response.suggestions)
      fromIssues == IF Len(v.issues) > 0 /\ ~v.isLegitimate
                    THEN Repeat("structure", Len(v.issues)) ELSE <<>>
  IN Take(first \o fromAI \o fromIssues, 5)

(* variant: nothing suggested when no verdict is handed over *)
generateBalancedFallbackSuggestions_NeedsVerdict(v) ==
  IF v = Undefined THEN <<>>
  ELSE IF v.isNonsensical THEN <<"critical">>
  ELSE IF v.isLegitimate THEN <<"improvement">>
  ELSE <<"structure">>

generateBalancedFallbackSuggestions(v) ==
  IF v # Undefined /\ v.isNonsensical THEN <<"critical">>
  ELSE IF v # Undefined /\ v.isLegitimate THEN <<"improvement">>
  ELSE <<"structure">>

(* rawInput.toLowerCase().includes('expand this rough idea') *)
isExpansionRequest(t) == Includes(t, "expand this rough idea")

(* rawInput.replace(/please expand ... concept:\s*/i, '').trim(): the first *)
(* occurrence of the prefix goes, with the blanks after it                  *)
RECURSIVE RemovePrefix(_)
RemovePrefix(t) ==
  IF t = <<>> THEN <<>>
  ELSE IF Head(t) = ExpandPrefix THEN Tail(t)
  ELSE <<Head(t)>> \o RemovePrefix(Tail(t))

(* the number of concepts generateFallbackExpandedIdeas returns *)
generateFallbackExpandedIdeas(roughIdea, rnd) ==
  IF validateIdeaQuality(roughIdea, rnd).isLegitimate THEN 2 ELSE 1

ExpansionResult(n) ==
  [status |-> "resolved", isExpansion |-> TRUE, structuredIdea |-> Undefined,
   suggestions |-> Undefined, expandedIdeas |-> n]

AnalysisResult(score, suggestions) ==
  [status |-> "resolved", isExpansion |-> FALSE,
   structuredIdea |-> [maturityScore |-> score, developmentStage |-> "raw"],
   suggestions |-> suggestions, expandedIdeas |-> Undefined]

calculateBasicQualityScore(input, rnd) == validateIdeaQuality(input, rnd).qualityScore

(* variant: the fallback builds a structured idea whatever was asked for *)
fallbackProcessing_AnalysisOnly(input, isExpansion, v, rnd) ==
  AnalysisResult(IF v # Undefined /\ v.qualityScore # 0 THEN v.qualityScore
                 ELSE calculateBasicQualityScore(input, rnd),
                 Take(generateBalancedFallbackSuggestions(v), 3))

(* rnd is the random draw of the validateIdeaQuality call made inside, if any *)
fallbackProcessing(input, isExpansion, v, rnd) ==
  IF isExpansion
  THEN ExpansionResult(generateFallbackExpandedIdeas(RemovePrefix(input), rnd))
  ELSE LET baseScore == IF v # Undefined /\ v.qualityScore # 0 THEN v.qualityScore
                        ELSE calculateBasicQualityScore(input, rnd)
       IN AnalysisResult(baseScore, Take(generateBalancedFallbackSuggestions(v), 3))

(* ---------------------------------------------------------------------- *)
(* OpenRouterService.makeAPICall                                            *)
(* ---------------------------------------------------------------------- *)

ApiKeys == {"missing", "malformed", "valid"}

(* the checks that throw before fetch is called *)
ConfigurationError(key) == key = "missing" \/ key = "malformed"

(* how a call that threw before fetch settled *)
ConfigurationFailure == [kind |-> "configuration"]

(* variant: the request goes out before the key is looked at *)
makeAPICallRequests_Unchecked(key) == 1

(* variant: the request is sent a second time *)
makeAPICallRequests_Twice(key) == IF ConfigurationError(key) THEN 0 ELSE 2

(* fetch calls one makeAPICall issues: none when the key check throws *)
makeAPICallRequests(key) == IF ConfigurationError(key) THEN 0 ELSE 1

ErrorStatuses == {401, 429, 500}

(* what comes back from fetch and response.json() *)
Failures == { [kind |-> "status", status |-> st] : st \in ErrorStatuses }
              \cup { [kind |-> "network"], [kind |-> "envelope"] }

(* makeAPICall throws: fetch rejected, !response.ok, or data.choices[0] of *)
(* a body without choices                                                  *)
CallThrows(r) == r \in Failures

(* content that JSON.parse rejects / accepts / accepts as something whose  *)
(* use throws (null, or a value of the wrong shape)                        *)
AnalysisReplies ==
  Failures \cup { [kind |-> "unparseable"], [kind |-> "unusable"] }
           \cup { [kind |-> "parsed", body |-> r] : r \in AIResponses }

ExpansionCounts == {0, 4}

ExpansionReplies ==
  Failures \cup { [kind |-> "unparseable"], [kind |-> "unusable"] }
           \cup { [kind |-> "parsed", body |-> n] : n \in ExpansionCounts }

(* ---------------------------------------------------------------------- *)
(* OpenRouterService.processIdeaWithAI                                      *)
(* ---------------------------------------------------------------------- *)

(* the test that sends a verdict to the critical fallback instead of the *)
(* external model: validation.isNonsensical / roughValidation.isNonsensical *)
(* variant: every input goes to the model *)
SkipsExternalCall_Never(v) == FALSE

SkipsExternalCall(v) == v.isNonsensical

Init ==
  /\ apiKey \in ApiKeys
  /\ pc = "idle"
  /\ rawInput = <<>>
  /\ validation = Undefined
  /\ reply = NoReply
  /\ requests = 0
  /\ result = NoResult
  /\ ideas = <<>>
  /\ query = ""
  /\ search = <<>>
  /\ clusters = <<>>
  /\ ideaData = Undefined
  /\ maturityReply = NoReply
  /\ analysis = NoResult
  /\ HookUnused
  /\ ParseUnused
  /\ StoreUnused
  /\ NotifyUnused
  /\ ViewUnused

(* analysis branch, verdict nonsensical: straight to the critical fallback *)
SubmitNonsensical ==
  /\ pc = "idle"
  /\ \E input \in Texts :
       /\ ~isExpansionRequest(input)
       /\ \E rnd \in DrawsFor(input) :
            LET v == validateIdeaQuality(input, rnd)
            IN /\ SkipsExternalCall(v)
               /\ rawInput' = input
               /\ validation' = v
               /\ \E rnd2 \in DrawsFor(input) :
                    result' = fallbackProcessing(input, FALSE, v, rnd2)
               /\ pc' = "done"
  /\ UNCHANGED <<apiKey, reply, requests, indexVars, appVars>>
  /\ UNCHANGED <<hookVars, parseVars, storeVars, notifyVars, viewVars>>

(* analysis branch: the prompt is built and makeAPICall is entered; a bad  *)
(* key throws before fetch, and the catch of processIdeaWithAI falls back  *)
SubmitAnalysis ==
  /\ pc = "idle"
  /\ \E input \in Texts :
       /\ ~isExpansionRequest(input)
       /\ \E rnd \in DrawsFor(input) :
            LET v == validateIdeaQuality(input, rnd)
            IN /\ ~SkipsExternalCall(v)
               /\ rawInput' = input
               /\ validation' = v
               /\ requests' = requests + makeAPICallRequests(apiKey)
               /\ IF ConfigurationError(apiKey)
                  THEN /\ \E rnd2 \in DrawsFor(input) :
                            result' = fallbackProcessing(input, isExpansionRequest(input),
                                                         Undefined, rnd2)
                       /\ pc' = "done"
                       /\ reply' = ConfigurationFailure
                  ELSE /\ result' = result
                       /\ pc' = "analysis_wait"
                       /\ reply' = reply
  /\ UNCHANGED <<apiKey, indexVars, appVars>>
  /\ UNCHANGED <<hookVars, parseVars, storeVars, notifyVars, viewVars>>

(* the awaited call of the analysis branch settles *)
AnalysisReply ==
  /\ pc = "analysis_wait"
  /\ \E r \in AnalysisReplies :
       /\ reply' = r
       /\ IF CallThrows(r) \/ r.kind = "unusable"
          THEN \E rnd \in DrawsFor(rawInput) :
                 result' = fallbackProcessing(rawInput, isExpansionRequest(rawInput),
                                              Undefined, rnd)
          ELSE IF r.kind = "unparseable"
          THEN \E rnd \in DrawsFor(rawInput) :
                 result' = fallbackProcessing(rawInput, FALSE, validation, rnd)
          ELSE result' = AnalysisResult(
                           calculateBalancedScore(r.body, validation, rawInput),
                           generateBalancedSuggestions(r.body, validation,
                             calculateBalancedScore(r.body, validation, rawInput)))
  /\ pc' = "done"
  /\ UNCHANGED <<apiKey, rawInput, validation, requests, indexVars, appVars>>
  /\ UNCHANGED <<hookVars, parseVars, storeVars, notifyVars, viewVars>>

(* expansion branch, rough idea nonsensical: fallback concepts, no call *)
SubmitExpansionNonsensical ==
  /\ pc = "idle"
  /\ \E input \in Texts :
       /\ isExpansionRequest(input)
       /\ \E rnd \in DrawsFor(input), rnd2 \in DrawsFor(RemovePrefix(input)) :
            LET roughValidation == validateIdeaQuality(RemovePrefix(input), rnd2)
            IN /\ SkipsExternalCall(roughValidation)
               /\ rawInput' = input
               /\ validation' = validateIdeaQuality(input, rnd)
               /\ \E rnd3 \in DrawsFor(RemovePrefix(input)) :
                    result' = fallbackProcessing(input, TRUE, roughValidation, rnd3)
               /\ pc' = "done"
  /\ UNCHANGED <<apiKey, reply, requests, indexVars, appVars>>
  /\ UNCHANGED <<hookVars, parseVars, storeVars, notifyVars, viewVars>>

(* expansion branch: generateExpandedIdeas validates the rough idea again  *)
(* and enters makeAPICall; its own catch absorbs a bad key                 *)
SubmitExpansion ==
  /\ pc = "idle"
  /\ \E input \in Texts :
       /\ isExpansionRequest(input)
       /\ \E rnd \in DrawsFor(input), rnd2 \in DrawsFor(RemovePrefix(input)) :
            LET roughIdea == RemovePrefix(input)
                roughValidation == validateIdeaQuality(roughIdea, rnd2)
            IN /\ ~SkipsExternalCall(roughValidation)
               /\ rawInput' = input
               /\ validation' = validateIdeaQuality(input, rnd)
               /\ \E rnd3 \in DrawsFor(roughIdea) :
                    IF validateIdeaQuality(roughIdea, rnd3).isNonsensical
                       \/ ConfigurationError(apiKey)
                    THEN /\ \E rnd4 \in DrawsFor(roughIdea) :
                              result' = ExpansionResult(
                                          generateFallbackExpandedIdeas(roughIdea, rnd4))
                         /\ pc' = "done"
                         /\ requests' = requests + makeAPICallRequests(apiKey)
                         /\ reply' = IF ConfigurationError(apiKey)
                                     THEN ConfigurationFailure ELSE reply
                    ELSE /\ result' = result
                         /\ pc' = "expand_wait"
                         /\ requests' = requests + makeAPICallRequests(apiKey)
                         /\ reply' = reply
  /\ UNCHANGED <<apiKey, indexVars, appVars>>
  /\ UNCHANGED <<hookVars, parseVars, storeVars, notifyVars, viewVars>>

(* the awaited call of generateExpandedIdeas settles *)
ExpansionReply ==
  /\ pc = "expand_wait"
  /\ \E r \in ExpansionReplies :
       /\ reply' = r
       /\ IF r.kind = "parsed"
          THEN result' = ExpansionResult(r.body)
          ELSE \E rnd \in DrawsFor(RemovePrefix(rawInput)) :
                 result' = ExpansionResult(
                             generateFallbackExpandedIdeas(RemovePrefix(rawInput), rnd))
  /\ pc' = "done"
  /\ UNCHANGED <<apiKey, rawInput, validation, requests, indexVars, appVars>>
  /\ UNCHANGED <<hookVars, parseVars, storeVars, notifyVars, viewVars>>

Next ==
  \/ SubmitNonsensical
  \/ SubmitAnalysis
  \/ AnalysisReply
  \/ SubmitExpansionNonsensical
  \/ SubmitExpansion
  \/ ExpansionReply

Spec == Init /\ [][Next]_vars

(* ---------------------------------------------------------------------- *)
(* The scoring functions applied to every input                            *)
(* ---------------------------------------------------------------------- *)

InitScore ==
  /\ apiKey = "valid"
  /\ pc = "input"
  /\ rawInput \in Texts
  /\ validation = Undefined
  /\ reply = NoReply
  /\ requests = 0
  /\ result = NoResult
  /\ ideas = <<>>
  /\ query = ""
  /\ search = <<>>
  /\ clusters = <<>>
  /\ ideaData = Undefined
  /\ maturityReply = NoReply
  /\ analysis = NoResult
  /\ HookUnused
  /\ ParseUnused
  /\ StoreUnused
  /\ NotifyUnused
  /\ ViewUnused

Validate ==
  /\ pc = "input"
  /\ \E rnd \in DrawsFor(rawInput) : validation' = validateIdeaQuality(rawInput, rnd)
  /\ pc' = "validated"
  /\ UNCHANGED <<apiKey, rawInput, reply, requests, result, indexVars, appVars>>
  /\ UNCHANGED <<hookVars, parseVars, storeVars, notifyVars, viewVars>>

(* calculateBalancedScore reads businessAssessment alone *)
Reconcile ==
  /\ pc = "validated"
  /\ \E a \in AIResponses :
       /\ a.suggestions = 0
       /\ reply' = [kind |-> "parsed", body |-> a]
       /\ result' = [status |-> "scored", by |-> "calculateBalancedScore",
                     score |-> calculateBalancedScore(a, validation, rawInput)]
  /\ pc' = "scored"
  /\ UNCHANGED <<apiKey, rawInput, validation, requests, indexVars, appVars>>
  /\ UNCHANGED <<hookVars, parseVars, storeVars, notifyVars, viewVars>>

ReconcileMaturity ==
  /\ pc = "validated"
  /\ \E an \in Analyses, idea \in IdeaShapes :
       /\ reply' = [kind |-> "parsed", body |-> an]
       /\ result' = [status |-> "scored", by |-> "calculateBalancedMaturityScore",
                     score |-> calculateBalancedMaturityScore(an, validation,
                                 calculateStructureScore(idea))]
  /\ pc' = "scored"
  /\ UNCHANGED <<apiKey, rawInput, validation, requests, indexVars, appVars>>
  /\ UNCHANGED <<hookVars, parseVars, storeVars, notifyVars, viewVars>>

NextScore == Validate \/ Reconcile \/ ReconcileMaturity

SpecScore == InitScore /\ [][NextScore]_vars

(* ---------------------------------------------------------------------- *)
(* OpenRouterService.analyzeIdeaMaturity                                    *)
(* ---------------------------------------------------------------------- *)

(* A JavaScript number of the returned analysis: NaN or an integer.        *)
NaN == [nan |-> TRUE]

Num(n) == [nan |-> FALSE, value |-> n]

(* A numeric field of the reply: a number (0 stands for absent, both are   *)
(* falsy), or a truthy value that is no number, such as "high".            *)
NonNumeric == [numeric |-> FALSE]

Numeric(n) == [numeric |-> TRUE, value |-> n]

ReplyScores == { Numeric(0), Numeric(40), Numeric(5000), NonNumeric }

(* strengths, gaps, nextSteps of the reply *)
ReplyLists == {"absent", "malformed", "array"}

(* marketPotential, feasibilityScore, recommendations of the reply *)
ReplyObjects == {"absent", "malformed", "object"}

MaturityBodies == [score : ReplyScores, lists : ReplyLists, objects : ReplyObjects]

(* Math.min(Math.max(data?.field || default, lo), hi): NaN stays NaN *)
ClampField(field, default, lo, hi) ==
  IF ~field.numeric THEN NaN
  ELSE Num(Min(Max(OrDefault(field.value, default), lo), hi))

(* the numeric sub-field of marketPotential / feasibilityScore in the reply *)
SubField(objects, wellFormed) ==
  IF objects = "object" THEN Numeric(wellFormed)
  ELSE IF objects = "malformed" THEN NonNumeric
  ELSE Numeric(0)

Below(x, n) == ~x.nan /\ x.value < n

Above(x, n) == ~x.nan /\ x.value > n

processBalancedMarketPotential(objects, ideaScore, isLegitimate) ==
  [score |-> ClampField(SubField(objects, 71), 45,
                        IF isLegitimate THEN 40 ELSE IF Below(ideaScore, 30) THEN 15 ELSE 25,
                        IF isLegitimate THEN 80 ELSE IF Above(ideaScore, 60) THEN 75 ELSE 60),
   marketSize |-> IF objects = "absent"
                  THEN (IF isLegitimate THEN "medium" ELSE "small") ELSE "reply",
   marketTrends |-> IF objects = "object" THEN "reply" ELSE "Market research required"]

processBalancedFeasibilityScore(objects, ideaScore, isLegitimate) ==
  [overall |-> ClampField(SubField(objects, 5000), 50,
                          IF isLegitimate THEN 45 ELSE IF Below(ideaScore, 30) THEN 20 ELSE 30,
                          IF isLegitimate THEN 80 ELSE IF Above(ideaScore, 60) THEN 75 ELSE 65),
   timeToMarket |-> IF objects = "absent"
                    THEN (IF isLegitimate THEN "6-12 months" ELSE "12-18 months")
                    ELSE "reply"]

(* the reply's recommendations are never copied: one of three fixed plans *)
processBalancedRecommendations(objects, ideaScore, isLegitimate) ==
  IF Below(ideaScore, 25) THEN "reconsider"
  ELSE IF isLegitimate THEN "constructive"
  ELSE "standard"

missingElements(i, branding) ==
  [painPoints |-> Max(0, 3 - i.painPoints),
   features |-> Max(0, 4 - i.features),
   userPersonas |-> Max(0, 2 - i.userPersonas),
   branding |-> branding]

generateBalancedMaturityAnalysis(i, structureScore, isLegitimate) ==
  [status |-> "resolved",
   score |-> Num(Min(IF isLegitimate THEN Max(structureScore, 55)
                     ELSE Max(structureScore, 30), 80)),
   strengths |-> "default", gaps |-> "default", nextSteps |-> "default",
   marketPotential |-> processBalancedMarketPotential("absent",
       Num(IF isLegitimate THEN Max(structureScore, 55) ELSE Max(structureScore, 30)),
       isLegitimate),
   feasibilityScore |-> processBalancedFeasibilityScore("absent",
       Num(IF isLegitimate THEN Max(structureScore, 55) ELSE Max(structureScore, 30)),
       isLegitimate),
   recommendations |-> processBalancedRecommendations("absent",
       Num(IF isLegitimate THEN Max(structureScore, 55) ELSE Max(structureScore, 30)),
       isLegitimate),
   missingElements |-> missingElements(i, ~i.titleOk)]

generateCriticalMaturityAnalysis(i, score) ==
  [status |-> "resolved",
   score |-> Num(Min(score, 15)),
   strengths |-> "default", gaps |-> "default", nextSteps |-> "default",
   marketPotential |-> [score |-> Num(10), marketSize |-> "nonexistent",
                        marketTrends |-> "Not applicable"],
   feasibilityScore |-> [overall |-> Num(10), timeToMarket |-> "Not viable"],
   recommendations |-> "abandon",
   missingElements |-> missingElements(i, TRUE)]

(* the reply as calculateBalancedMaturityScore reads it: a marketPotential *)
(* whose score is no number compares false with 70, and a marketSize that  *)
(* is no string is not 'large'                                             *)
AnalysisRead(body) ==
  [score |-> body.score.value,
   marketPotential |-> IF body.objects = "absent" THEN NoMarketPotential
                       ELSE IF body.objects = "malformed"
                       THEN [score |-> 0, marketSize |-> "other"]
                       ELSE [score |-> 71, marketSize |-> "large"]]

(* calculateBalancedMaturityScore on the parsed reply: Math.min, Math.max   *)
(* and += carry a score that is no number through to the result as NaN     *)
finalMaturityScore(body, v, structureScore) ==
  IF v.isNonsensical \/ body.score.numeric
  THEN Num(calculateBalancedMaturityScore(AnalysisRead(body), v, structureScore))
  ELSE NaN

ListOr(lists, default) == IF lists = "array" THEN "reply" ELSE default

MaturityResult(body, i, v, finalScore) ==
  [status |-> "resolved",
   score |-> finalScore,
   strengths |-> ListOr(body.lists, "default"),
   gaps |-> ListOr(body.lists, "default"),
   nextSteps |-> ListOr(body.lists, "default"),
   marketPotential |-> processBalancedMarketPotential(body.objects, finalScore, v.isLegitimate),
   feasibilityScore |-> processBalancedFeasibilityScore(body.objects, finalScore, v.isLegitimate),
   recommendations |-> processBalancedRecommendations(body.objects, finalScore, v.isLegitimate),
   missingElements |-> missingElements(i, ~i.titleOk)]

(* the Idea object EnhancedAIService.analyzeMaturity builds *)
IdeaOf(shape, description) ==
  [titleOk |-> shape.titleOk, descLong |-> Length(description) > 50,
   painPoints |-> shape.painPoints, features |-> shape.features,
   userPersonas |-> shape.userPersonas, tags |-> shape.tags,
   description |-> description]

MaturityReplies ==
  Failures \cup { [kind |-> "unparseable"], [kind |-> "unusable"] }
           \cup { [kind |-> "parsed", body |-> b] : b \in MaturityBodies }

(* the verdict on the description; no draw is needed where it is not       *)
(* nonsensical                                                             *)
DescriptionVerdict(i) == validateIdeaQuality(i.description, 0)

(* validation.isNonsensical: the critical analysis, no call *)
AnalyzeCritical ==
  /\ pc = "maturity_idle"
  /\ DescriptionVerdict(ideaData).isNonsensical
  /\ analysis' = generateCriticalMaturityAnalysis(ideaData, 10)
  /\ pc' = "analysed"
  /\ UNCHANGED <<pipelineVars, result, indexVars, ideaData, maturityReply>>
  /\ UNCHANGED <<hookVars, parseVars, storeVars, notifyVars, viewVars>>

(* up to the awaited makeAPICall; a key that fails the check throws into   *)
(* the outer catch                                                         *)
AnalyzeCall ==
  /\ pc = "maturity_idle"
  /\ ~DescriptionVerdict(ideaData).isNonsensical
  /\ requests' = requests + makeAPICallRequests(apiKey)
  /\ IF ConfigurationError(apiKey)
     THEN /\ analysis' = generateBalancedMaturityAnalysis(ideaData, 40, FALSE)
          /\ maturityReply' = ConfigurationFailure
          /\ pc' = "analysed"
     ELSE /\ analysis' = analysis
          /\ maturityReply' = maturityReply
          /\ pc' = "maturity_wait"
  /\ UNCHANGED <<apiKey, rawInput, validation, reply, result, indexVars, ideaData>>
  /\ UNCHANGED <<hookVars, parseVars, storeVars, notifyVars, viewVars>>

(* the call settled: thrown errors and a reply that parses to null go to   *)
(* the outer catch, an unparseable reply to the inner one                  *)
MaturityReplied ==
  /\ pc = "maturity_wait"
  /\ \E r \in MaturityReplies :
       /\ maturityReply' = r
       /\ analysis' =
            IF CallThrows(r) \/ r.kind = "unusable"
            THEN generateBalancedMaturityAnalysis(ideaData, 40, FALSE)
            ELSE IF r.kind = "unparseable"
            THEN generateBalancedMaturityAnalysis(ideaData, calculateStructureScore(ideaData),
                                                  DescriptionVerdict(ideaData).isLegitimate)
            ELSE MaturityResult(r.body, ideaData, DescriptionVerdict(ideaData),
                   finalMaturityScore(r.body, DescriptionVerdict(ideaData),
                                      calculateStructureScore(ideaData)))
  /\ pc' = "analysed"
  /\ UNCHANGED <<pipelineVars, result, indexVars, ideaData>>
  /\ UNCHANGED <<hookVars, parseVars, storeVars, notifyVars, viewVars>>

NextMaturity == AnalyzeCritical \/ AnalyzeCall \/ MaturityReplied

InitMaturity ==
  /\ apiKey \in ApiKeys
  /\ pc = "maturity_idle"
  /\ rawInput = <<>>
  /\ validation = Undefined
  /\ reply = NoReply
  /\ requests = 0
  /\ result = NoResult
  /\ ideas = <<>>
  /\ query = ""
  /\ search = <<>>
  /\ clusters = <<>>
  /\ ideaData \in { IdeaOf(shape, d) : shape \in IdeaShapes, d \in Texts }
  /\ maturityReply = NoReply
  /\ analysis = NoResult
  /\ HookUnused
  /\ ParseUnused
  /\ StoreUnused
  /\ NotifyUnused
  /\ ViewUnused

SpecMaturity == InitMaturity /\ [][NextMaturity]_vars

(* ---------------------------------------------------------------------- *)
(* App.handleIdeaSubmit: processNewIdea, then analyzeMaturity               *)
(* ---------------------------------------------------------------------- *)

(* descriptions the model may put in place of the submitted text *)
AIDescriptions == { <<"buy high", "sell low">>, <<"i want to open a bakery", "in islamabad">> }

(* parsedResponse.description || rawInput; the fallback keeps rawInput *)
Descriptions(r, input) == IF r.kind = "parsed" THEN {input} \cup AIDescriptions ELSE {input}

(* processNewIdea returned a structured idea: it goes to analyzeMaturity.  *)
(* The locals of processIdeaWithAI are gone and the record is consumed.    *)
AnalyzeMaturity ==
  /\ pc = "done"
  /\ ~result.isExpansion
  /\ \E shape \in IdeaShapes, d \in Descriptions(reply, rawInput) :
       ideaData' = IdeaOf(shape, d)
  /\ validation' = Undefined
  /\ reply' = NoReply
  /\ result' = NoResult
  /\ pc' = "maturity_idle"
  /\ UNCHANGED <<apiKey, rawInput, requests, indexVars, maturityReply, analysis>>
  /\ UNCHANGED <<hookVars, parseVars, storeVars, notifyVars, viewVars>>

(* setExpandedIdeas, setShowExpansionResults(true) *)
ShowExpansionResults ==
  /\ pc = "done"
  /\ result.isExpansion
  /\ pc' = "shown"
  /\ UNCHANGED <<pipelineVars, result, indexVars, appVars>>
  /\ UNCHANGED <<hookVars, parseVars, storeVars, notifyVars, viewVars>>

(* setAnalysis, setShowResults(true) *)
ShowResults ==
  /\ pc = "analysed"
  /\ pc' = "shown"
  /\ UNCHANGED <<pipelineVars, result, indexVars, appVars>>
  /\ UNCHANGED <<hookVars, parseVars, storeVars, notifyVars, viewVars>>

NextApp == Next \/ AnalyzeMaturity \/ NextMaturity \/ ShowExpansionResults \/ ShowResults

SpecApp == Init /\ [][NextApp]_vars

(* ---------------------------------------------------------------------- *)
(* MemoryService.findIdeaByQuery, ClusteringService.findClusters           *)
(* ---------------------------------------------------------------------- *)

Range(f) == { f[i] : i \in DOMAIN f }

(* an idea as far as the index needs it: its id *)
IdeaLists == { [i \in 1..n |-> [id |-> i]] : n \in 0..MaxIdeas }

Queries == {"", "   ", "bakery"}

(* query.trim() *)
Trim(q) == IF q = "   " THEN "" ELSE q

(* fuse.search(query): items of the list, each at most once, best first *)
RankedResults(list) ==
  { r \in SeqsUpTo(Range(list), Len(list)) : \A i, j \in DOMAIN r : i # j => r[i] # r[j] }

(* variant: the query is not trimmed *)
findIdeaByQuery_Untrimmed(q, list, results) ==
  IF q = "" \/ Len(list) = 0 THEN Undefined
  ELSE IF Len(results) > 0 THEN results[1] ELSE Undefined

findIdeaByQuery(q, list, results) ==
  IF Trim(q) = "" \/ Len(list) = 0 THEN Undefined
  ELSE IF Len(results) > 0 THEN results[1] ELSE Undefined

(* the items of a set of ideas in list order *)
RECURSIVE InListOrder(_, _)
InListOrder(list, S) ==
  IF list = <<>> THEN <<>>
  ELSE (IF Head(list) \in S THEN <<Head(list)>> ELSE <<>>) \o InListOrder(Tail(list), S)

(* fuse.search(idea.title + ' ' + idea.description) for every idea of the  *)
(* list: any items of the list, the idea itself among them or not          *)
SimilarityRelations(list) ==
  [1..Len(list) -> { InListOrder(list, S) : S \in SUBSET Range(list) }]

(* the filter of the search results: not the idea itself, not yet clustered *)
(* variant: ideas already clustered are not filtered out *)
SimilarIdeas_Unfiltered(results, idea, processedIdeas) ==
  SelectSeq(results, LAMBDA item : item.id # idea.id)

SimilarIdeas(results, idea, processedIdeas) ==
  SelectSeq(results, LAMBDA item : item.id # idea.id /\ item.id \notin processedIdeas)

Ids(items) == [i \in DOMAIN items |-> items[i].id]

(* variant: the cluster holds the similar ideas without the idea searched for *)
NewCluster_WithoutAnchor(clusterIdeas, index) ==
  [ideaIds |-> Ids(Tail(clusterIdeas)), color |-> index % 6]

NewCluster(clusterIdeas, index) == [ideaIds |-> Ids(clusterIdeas), color |-> index % 6]

(* the forEach of findClusters from idea i on *)
RECURSIVE ClusterFrom(_, _, _, _, _)
ClusterFrom(list, sim, i, found, processedIdeas) ==
  IF i > Len(list) THEN found
  ELSE IF list[i].id \in processedIdeas
       \/ Len(SimilarIdeas(sim[i], list[i], processedIdeas)) = 0
  THEN ClusterFrom(list, sim, i + 1, found, processedIdeas)
  ELSE ClusterFrom(list, sim, i + 1,
         Append(found, NewCluster(<<list[i]>> \o SimilarIdeas(sim[i], list[i], processedIdeas),
                                  Len(found))),
         processedIdeas \cup {list[i].id}
           \cup Range(Ids(SimilarIdeas(sim[i], list[i], processedIdeas))))

findClusters(list, sim) == ClusterFrom(list, sim, 1, <<>>, {})

InitIndex ==
  /\ apiKey = "valid"
  /\ pc = "idle"
  /\ rawInput = <<>>
  /\ validation = Undefined
  /\ reply = NoReply
  /\ requests = 0
  /\ result = NoResult
  /\ ideas \in IdeaLists
  /\ query = ""
  /\ search = <<>>
  /\ clusters = <<>>
  /\ ideaData = Undefined
  /\ maturityReply = NoReply
  /\ analysis = NoResult
  /\ HookUnused
  /\ ParseUnused
  /\ StoreUnused
  /\ NotifyUnused
  /\ ViewUnused

FindIdeaByQuery ==
  /\ pc = "idle"
  /\ \E q \in Queries, results \in RankedResults(ideas) :
       /\ query' = q
       /\ search' = IF Trim(q) = "" \/ Len(ideas) = 0 THEN <<>> ELSE results
       /\ result' = findIdeaByQuery(q, ideas, results)
  /\ pc' = "queried"
  /\ UNCHANGED <<pipelineVars, appVars, ideas, clusters>>
  /\ UNCHANGED <<hookVars, parseVars, storeVars, notifyVars, viewVars>>

(* ideas.length < 2: no cluster, no timer *)
FindClustersFew ==
  /\ pc = "idle"
  /\ Len(ideas) < 2
  /\ clusters' = <<>>
  /\ pc' = "clustered"
  /\ UNCHANGED <<pipelineVars, appVars, result, ideas, query, search>>
  /\ UNCHANGED <<hookVars, parseVars, storeVars, notifyVars, viewVars>>

(* up to the awaited 500 ms timer *)
FindClustersStart ==
  /\ pc = "idle"
  /\ Len(ideas) >= 2
  /\ pc' = "clustering"
  /\ UNCHANGED <<pipelineVars, appVars, result, indexVars, appVars>>
  /\ UNCHANGED <<hookVars, parseVars, storeVars, notifyVars, viewVars>>

(* the timer fired: the index is built and the list is walked *)
FindClustersFinish ==
  /\ pc = "clustering"
  /\ \E sim \in SimilarityRelations(ideas) :
       /\ search' = sim
       /\ clusters' = findClusters(ideas, sim)
  /\ pc' = "clustered"
  /\ UNCHANGED <<pipelineVars, appVars, result, ideas, query>>
  /\ UNCHANGED <<hookVars, parseVars, storeVars, notifyVars, viewVars>>

NextIndex == FindIdeaByQuery \/ FindClustersFew \/ FindClustersStart \/ FindClustersFinish

SpecIndex == InitIndex /\ [][NextIndex]_vars

(* ---------------------------------------------------------------------- *)
(* useEnhancedIdeas: addIdea, updateIdea, deleteIdea, toggleStar            *)
(* ---------------------------------------------------------------------- *)

(* findClusters calls that may wait on their timer at once *)
MaxPending == 2

NotAdding == [absent |-> TRUE]

StoredIdea(id) == [id |-> id, edited |-> FALSE, isStarred |-> FALSE]

(* the collections useEffect may load from localStorage *)
SavedCollections == { [i \in 1..n |-> StoredIdea(i)] : n \in 0..(MaxIdeas - 1) }

(* { ...idea, ...updates } *)
ApplyUpdates(i, updates) ==
  IF updates.field = "edited" THEN [i EXCEPT !.edited = updates.value]
  ELSE [i EXCEPT !.isStarred = updates.value]

(* ideas.map(idea => idea.id === id ? { ...idea, ...updates } : idea) *)
WithUpdate(list, id, updates) ==
  [k \in DOMAIN list |-> IF list[k].id = id THEN ApplyUpdates(list[k], updates) ELSE list[k]]

(* ideas.filter(idea => idea.id !== id) *)
Without(list, id) == SelectSeq(list, LAMBDA i : i.id # id)

(* ClusteringService.findClusters(updatedIdeas) and saveClusters: a list   *)
(* of fewer than two ideas resolves before the next event, a longer one    *)
(* waits on the 500 ms timer                                               *)
RecomputeClusters(updatedIdeas) ==
  IF Len(updatedIdeas) < 2
  THEN /\ clusteredFrom' = updatedIdeas
       /\ recomputing' = recomputing
  ELSE /\ clusteredFrom' = clusteredFrom
       /\ recomputing' = Append(recomputing, updatedIdeas)

InitHook ==
  /\ apiKey = "valid"
  /\ pc = "idle"
  /\ rawInput = <<>>
  /\ validation = Undefined
  /\ reply = NoReply
  /\ requests = 0
  /\ result = NoResult
  /\ ideas = <<>>
  /\ query = ""
  /\ search = <<>>
  /\ clusters = <<>>
  /\ ideaData = Undefined
  /\ maturityReply = NoReply
  /\ analysis = NoResult
  /\ stored \in SavedCollections
  /\ written = stored
  /\ adding = NotAdding
  /\ recomputing = <<>>
  /\ clusteredFrom = stored
  /\ nextId = Len(stored) + 1
  /\ ParseUnused
  /\ StoreUnused
  /\ NotifyUnused
  /\ ViewUnused

notHookVars == <<pipelineVars, pc, result, indexVars, appVars, parseVars, storeVars, notifyVars, viewVars>>

(* addIdea up to the awaited processNewIdea: the callback holds the ideas  *)
(* of the render it was created in                                        *)
AddIdeaStart ==
  /\ adding = NotAdding
  /\ nextId <= MaxIdeas
  /\ adding' = [ideas |-> stored]
  /\ UNCHANGED <<stored, written, recomputing, clusteredFrom, nextId>>
  /\ UNCHANGED notHookVars

(* processNewIdea resolved: [...ideas, newIdea] is saved and clustered *)
AddIdeaResume ==
  /\ adding # NotAdding
  /\ Len(recomputing) < MaxPending
  /\ stored' = Append(adding.ideas, StoredIdea(nextId))
  /\ written' = Append(written, StoredIdea(nextId))
  /\ RecomputeClusters(Append(adding.ideas, StoredIdea(nextId)))
  /\ adding' = NotAdding
  /\ nextId' = nextId + 1
  /\ UNCHANGED notHookVars

(* updateIdea(id, updates): saveIdeas, nothing else *)
UpdateIdea ==
  /\ \E k \in DOMAIN stored :
       /\ ~stored[k].edited
       /\ stored' = WithUpdate(stored, stored[k].id, [field |-> "edited", value |-> TRUE])
       /\ written' = WithUpdate(written, stored[k].id, [field |-> "edited", value |-> TRUE])
  /\ UNCHANGED <<adding, recomputing, clusteredFrom, nextId>>
  /\ UNCHANGED notHookVars

(* toggleStar(id): updateIdea(id, { isStarred: !isStarred }) *)
ToggleStar ==
  /\ \E k \in DOMAIN stored :
       /\ stored' = WithUpdate(stored, stored[k].id,
                               [field |-> "isStarred", value |-> ~stored[k].isStarred])
       /\ written' = WithUpdate(written, stored[k].id,
                                [field |-> "isStarred", value |-> ~stored[k].isStarred])
  /\ UNCHANGED <<adding, recomputing, clusteredFrom, nextId>>
  /\ UNCHANGED notHookVars

(* deleteIdea(id): saveIdeas, then findClusters(...).then(saveClusters) *)
DeleteIdea ==
  /\ Len(recomputing) < MaxPending
  /\ \E k \in DOMAIN stored :
       /\ stored' = Without(stored, stored[k].id)
       /\ written' = Without(written, stored[k].id)
       /\ RecomputeClusters(Without(stored, stored[k].id))
  /\ UNCHANGED <<adding, nextId>>
  /\ UNCHANGED notHookVars

(* the oldest timer fired: saveClusters *)
ClustersSaved ==
  /\ recomputing # <<>>
  /\ clusteredFrom' = Head(recomputing)
  /\ recomputing' = Tail(recomputing)
  /\ UNCHANGED <<stored, written, adding, nextId>>
  /\ UNCHANGED notHookVars

NextHook ==
  AddIdeaStart \/ AddIdeaResume \/ UpdateIdea \/ ToggleStar \/ DeleteIdea \/ ClustersSaved

SpecHook == InitHook /\ [][NextHook]_vars

(* ---------------------------------------------------------------------- *)
(* Reading the reply: response.match(...) and JSON.parse                    *)
(* ---------------------------------------------------------------------- *)

MaxContent == 4

(* the reply text as tokens: the delimiters, "m" for a member or element   *)
(* (a scalar when it stands alone) and "t" for prose                       *)
Tokens == {"{", "}", "[", "]", "m", "t"}

Contents == UNION { [1..n -> Tokens] : n \in 0..MaxContent }

ParseSites == {"analysis", "maturity", "expansion"}

(* the delimiters of /\{[\s\S]*\}/ and of /\[[\s\S]*\]/ *)
Opener(s) == IF s = "expansion" THEN "[" ELSE "{"

Closer(s) == IF s = "expansion" THEN "]" ELSE "}"

Positions(text, tok) == { i \in 1..Len(text) : text[i] = tok }

First(positions) == CHOOSE i \in positions : \A j \in positions : i <= j

Last(positions) == CHOOSE i \in positions : \A j \in positions : j <= i

(* the pattern matches when an opener has a closer after it *)
HasMatch(text, s) ==
  \E i \in Positions(text, Opener(s)), j \in Positions(text, Closer(s)) : i < j

(* jsonMatch[0]: from the first opener as far as the last closer, since    *)
(* [\s\S]* is greedy                                                       *)
RegexMatch(text, s) ==
  SubSeq(text, First(Positions(text, Opener(s))), Last(Positions(text, Closer(s))))

(* jsonMatch ? jsonMatch[0] : response *)
JsonStringOf(text, s) == IF HasMatch(text, s) THEN RegexMatch(text, s) ELSE text

(* JSON.parse accepts one value and nothing after it: delimiters nested by *)
(* kind, no prose                                                          *)
RECURSIVE WellNested(_, _, _)
WellNested(text, i, stack) ==
  IF i > Len(text) THEN stack = <<>>
  ELSE IF text[i] = "t" THEN FALSE
  ELSE IF i > 1 /\ stack = <<>> THEN FALSE
  ELSE IF text[i] = "m" THEN WellNested(text, i + 1, stack)
  ELSE IF text[i] \in {"{", "["} THEN WellNested(text, i + 1, <<text[i]>> \o stack)
  ELSE IF stack = <<>> THEN FALSE
  ELSE IF text[i] = "}" /\ stack[1] = "{" THEN WellNested(text, i + 1, Tail(stack))
  ELSE IF text[i] = "]" /\ stack[1] = "[" THEN WellNested(text, i + 1, Tail(stack))
  ELSE FALSE

JSONparse(text) ==
  IF text = <<>> \/ ~WellNested(text, 1, <<>>) THEN "SyntaxError"
  ELSE IF text[1] = "{" THEN "object"
  ELSE IF text[1] = "[" THEN "array"
  ELSE "scalar"

(* the ends of the spans that start at the first opener and close as many  *)
(* delimiters as they open                                                 *)
BalancedEnds(text, s) ==
  { j \in 1..Len(text) :
      /\ Positions(text, Opener(s)) # {}
      /\ j > First(Positions(text, Opener(s)))
      /\ Cardinality({ k \in First(Positions(text, Opener(s)))..j : text[k] = Opener(s) })
           = Cardinality({ k \in First(Positions(text, Opener(s)))..j : text[k] = Closer(s) }) }

FirstBalanced(text, s) ==
  SubSeq(text, First(Positions(text, Opener(s))), First(BalancedEnds(text, s)))

(* a well-formed object (array) followed by text that holds a closer *)
JSONThenCloser(text, s) ==
  /\ BalancedEnds(text, s) # {}
  /\ JSONparse(FirstBalanced(text, s)) # "SyntaxError"
  /\ \E k \in Positions(text, Closer(s)) : k > First(BalancedEnds(text, s))

InitParse ==
  /\ apiKey = "valid"
  /\ pc = "replied"
  /\ rawInput = <<>>
  /\ validation = Undefined
  /\ reply = NoReply
  /\ requests = 1
  /\ result = NoResult
  /\ ideas = <<>>
  /\ query = ""
  /\ search = <<>>
  /\ clusters = <<>>
  /\ ideaData = Undefined
  /\ maturityReply = NoReply
  /\ analysis = NoResult
  /\ HookUnused
  /\ content \in Contents
  /\ site = "none"
  /\ jsonString = <<>>
  /\ parseOutcome = "none"
  /\ StoreUnused
  /\ NotifyUnused
  /\ ViewUnused

notParseVars == <<pipelineVars, result, indexVars, appVars, hookVars, storeVars, notifyVars, viewVars>>

(* the try block of processIdeaWithAI that reads the reply *)
ReadAnalysisReply ==
  /\ pc = "replied"
  /\ site' = "analysis"
  /\ jsonString' = JsonStringOf(content, "analysis")
  /\ parseOutcome' = JSONparse(JsonStringOf(content, "analysis"))
  /\ pc' = "read"
  /\ UNCHANGED <<content, notParseVars>>

(* the try block of analyzeIdeaMaturity that reads the reply *)
ReadMaturityReply ==
  /\ pc = "replied"
  /\ site' = "maturity"
  /\ jsonString' = JsonStringOf(content, "maturity")
  /\ parseOutcome' = JSONparse(JsonStringOf(content, "maturity"))
  /\ pc' = "read"
  /\ UNCHANGED <<content, notParseVars>>

(* the try block of generateExpandedIdeas that reads the reply *)
ReadExpansionReply ==
  /\ pc = "replied"
  /\ site' = "expansion"
  /\ jsonString' = JsonStringOf(content, "expansion")
  /\ parseOutcome' = JSONparse(JsonStringOf(content, "expansion"))
  /\ pc' = "read"
  /\ UNCHANGED <<content, notParseVars>>

NextParse == ReadAnalysisReply \/ ReadMaturityReply \/ ReadExpansionReply

SpecParse == InitParse /\ [][NextParse]_vars

(* ---------------------------------------------------------------------- *)
(* useEnhancedIdeas: saveIdeas and the load effect                         *)
(* ---------------------------------------------------------------------- *)

MaxStored == 2

Times == {1, 2}

(* a Date object, and the ISO string JSON.stringify writes for it *)
DateAt(t) == [type |-> "Date", time |-> t]

IsoString(t) == [type |-> "string", iso |-> t]

(* AISuggestion.createdAt and ExistingProduct.foundAt are Dates *)
SuggestionLists(t) == { <<>>, << [createdAt |-> DateAt(t)] >> }

ProductLists(t) == { <<>>, << [foundAt |-> DateAt(t)] >> }

(* the ideas addIdea builds and updateIdea rewrites *)
DatedIdeas ==
  UNION { [createdAt : {DateAt(t)}, updatedAt : {DateAt(t)},
           lastViewedAt : {Undefined, DateAt(t)},
           aiSuggestions : SuggestionLists(t),
           existingProducts : ProductLists(t)] : t \in Times }

DatedCollections == SeqsUpTo(DatedIdeas, MaxStored)

(* JSON.stringify followed by JSON.parse: a Date becomes its ISO string,   *)
(* an undefined member is left out and reads as undefined                  *)
Serialised(v) ==
  IF v = Undefined THEN Undefined ELSE IsoString(v.time)

SerialisedSuggestions(list) ==
  [k \in DOMAIN list |-> [createdAt |-> Serialised(list[k].createdAt)]]

SerialisedProducts(list) ==
  [k \in DOMAIN list |-> [foundAt |-> Serialised(list[k].foundAt)]]

SerialisedIdea(i) ==
  [createdAt |-> Serialised(i.createdAt),
   updatedAt |-> Serialised(i.updatedAt),
   lastViewedAt |-> Serialised(i.lastViewedAt),
   aiSuggestions |-> SerialisedSuggestions(i.aiSuggestions),
   existingProducts |-> SerialisedProducts(i.existingProducts)]

Serialise(list) == [k \in DOMAIN list |-> SerialisedIdea(list[k])]

(* new Date(isoString) *)
NewDate(v) == DateAt(v.iso)

(* the map of the load effect: createdAt, updatedAt and lastViewedAt are   *)
(* made Dates, the rest of the idea is spread as parsed                    *)
Hydrated(i) ==
  [i EXCEPT !.createdAt = NewDate(i.createdAt),
            !.updatedAt = NewDate(i.updatedAt),
            !.lastViewedAt = IF i.lastViewedAt # Undefined
                             THEN NewDate(i.lastViewedAt) ELSE Undefined]

InitStore ==
  /\ apiKey = "valid"
  /\ pc = "mounted"
  /\ rawInput = <<>>
  /\ validation = Undefined
  /\ reply = NoReply
  /\ requests = 0
  /\ result = NoResult
  /\ ideas = <<>>
  /\ query = ""
  /\ search = <<>>
  /\ clusters = <<>>
  /\ ideaData = Undefined
  /\ maturityReply = NoReply
  /\ analysis = NoResult
  /\ HookUnused
  /\ ParseUnused
  /\ StoreUnused
  /\ NotifyUnused
  /\ ViewUnused

notStoreVars == <<pipelineVars, result, indexVars, appVars, hookVars, parseVars, notifyVars, viewVars>>

(* saveIdeas(newIdeas): localStorage.setItem(STORAGE_KEY, JSON.stringify(newIdeas)) *)
SaveIdeas ==
  /\ pc = "mounted"
  /\ \E list \in DatedCollections :
       /\ newIdeas' = list
       /\ savedIdeas' = Serialise(list)
  /\ pc' = "saved"
  /\ UNCHANGED <<parsedIdeas, notStoreVars>>

(* the effect of the next mount, with the item saveIdeas wrote: getItem,   *)
(* JSON.parse, map, setIdeas                                               *)
LoadIdeas ==
  /\ pc = "saved"
  /\ parsedIdeas' = [k \in DOMAIN savedIdeas |-> Hydrated(savedIdeas[k])]
  /\ pc' = "loaded"
  /\ UNCHANGED <<newIdeas, savedIdeas, notStoreVars>>

NextStore == SaveIdeas \/ LoadIdeas

SpecStore == InitStore /\ [][NextStore]_vars

(* ---------------------------------------------------------------------- *)
(* validateIdeaQuality on texts that differ in their repeated characters   *)
(* ---------------------------------------------------------------------- *)

RunVocabulary ==
  { p.txt : p \in RunPhrases }
    \cup {"zzzzzz", "zzzzzzz", "hi", "shop", "open gym", "i want to open a bakery"}

RunTexts == SeqsUpTo(RunVocabulary, MaxPhrases)

InitRepeats ==
  /\ apiKey = "valid"
  /\ pc = "input"
  /\ rawInput \in RunTexts
  /\ validation = Undefined
  /\ reply = NoReply
  /\ requests = 0
  /\ result = NoResult
  /\ ideas = <<>>
  /\ query = ""
  /\ search = <<>>
  /\ clusters = <<>>
  /\ ideaData = Undefined
  /\ maturityReply = NoReply
  /\ analysis = NoResult
  /\ HookUnused
  /\ ParseUnused
  /\ StoreUnused
  /\ NotifyUnused
  /\ ViewUnused

SpecRepeats == InitRepeats /\ [][Validate]_vars

(* ---------------------------------------------------------------------- *)
(* NotificationService                                                      *)
(* ---------------------------------------------------------------------- *)

(* notifications.slice(0, 50) *)
KeepLatest == 50

MaxAdded == 3

MaxRead == 1

(* a stored notification: the id stands for crypto.randomUUID() and        *)
(* createdAt, a later notification has the greater id                      *)
NewNotification(id) == [id |-> id, read |-> FALSE]

(* variant: the new notification is pushed to the end before the slice *)
addNotification_Pushed(list, id) ==
  SubSeq(Append(list, NewNotification(id)), 1, Min(KeepLatest, Len(list) + 1))

(* notifications.unshift(newNotification); saveNotifications(notifications.slice(0, 50)) *)
addNotification(list, id) ==
  SubSeq(<<NewNotification(id)>> \o list, 1, Min(KeepLatest, Len(list) + 1))

(* notifications.map(n => n.id === notificationId ? { ...n, read: true } : n) *)
markAsRead(list, notificationId) ==
  [k \in DOMAIN list |-> IF list[k].id = notificationId
                         THEN [list[k] EXCEPT !.read = TRUE] ELSE list[k]]

(* the forEach loops and the milestone of generateSmartNotifications: one  *)
(* addNotification after another                                           *)
RECURSIVE AddedInTurn(_, _, _)
AddedInTurn(list, lastId, count) ==
  IF count = 0 THEN list
  ELSE AddedInTurn(addNotification(list, lastId + 1), lastId + 1, count - 1)

(* the idea lists generateSmartNotifications is given: how many ideas,     *)
(* how many of them stale, how many ready for the next stage               *)
IdeaSummaries ==
  { s \in [length : {0, 2, 10}, stale : 0..1, ready : 0..1] :
      s.stale + s.ready <= s.length }

NotificationCount(s) == s.stale + s.ready + (IF s.length = 10 THEN 1 ELSE 0)

(* the list n calls of addNotification leave *)
StoredNotifications(n) == [k \in 1..n |-> NewNotification(n - k + 1)]

(* what earlier sessions left in localStorage *)
InitNotify ==
  /\ apiKey = "valid"
  /\ pc = "idle"
  /\ rawInput = <<>>
  /\ validation = Undefined
  /\ reply = NoReply
  /\ requests = 0
  /\ result = NoResult
  /\ ideas = <<>>
  /\ query = ""
  /\ search = <<>>
  /\ clusters = <<>>
  /\ ideaData = Undefined
  /\ maturityReply = NoReply
  /\ analysis = NoResult
  /\ HookUnused
  /\ ParseUnused
  /\ StoreUnused
  /\ created \in {0, KeepLatest - 2, KeepLatest}
  /\ notifications = StoredNotifications(created)
  /\ ViewUnused

notNotifyVars ==
  <<pipelineVars, pc, result, indexVars, appVars, hookVars, parseVars, storeVars, viewVars>>

AddNotification ==
  /\ created < KeepLatest + MaxAdded
  /\ notifications' = addNotification(notifications, created + 1)
  /\ created' = created + 1
  /\ UNCHANGED notNotifyVars

MarkAsRead ==
  /\ \E k \in DOMAIN notifications :
       /\ ~notifications[k].read
       /\ Cardinality({ j \in DOMAIN notifications : notifications[j].read }) < MaxRead
       /\ notifications' = markAsRead(notifications, notifications[k].id)
  /\ UNCHANGED <<created, notNotifyVars>>

GenerateSmartNotifications ==
  /\ \E s \in IdeaSummaries :
       /\ NotificationCount(s) > 0
       /\ created + NotificationCount(s) <= KeepLatest + MaxAdded
       /\ notifications' = AddedInTurn(notifications, created, NotificationCount(s))
       /\ created' = created + NotificationCount(s)
  /\ UNCHANGED notNotifyVars

NextNotify == AddNotification \/ MarkAsRead \/ GenerateSmartNotifications

SpecNotify == InitNotify /\ [][NextNotify]_vars

(* ---------------------------------------------------------------------- *)
(* App: the views and the submission handlers                               *)
(* ---------------------------------------------------------------------- *)

MaxSubmissions == 2

(* useState<MaturityAnalysis | null>(null) *)
NoAnalysis == [absent |-> TRUE]

(* the analysis analyzeMaturity returns for the n-th idea submitted *)
AnalysisOf(n) == [for |-> n]

(* the initial useState values; currentIdea 0 is the empty string, n the   *)
(* n-th idea submitted; expandedIdeas 0 is the empty list                  *)
InitialView ==
  [currentIdea |-> 0, analysis |-> NoAnalysis, expandedIdeas |-> 0,
   isLoading |-> FALSE, showResults |-> FALSE, showExpansionResults |-> FALSE,
   showIntro |-> TRUE, activeEngine |-> "none"]

(* the branch of the conditional in <main> that is rendered *)
View(a) ==
  IF a.showIntro /\ ~a.showResults /\ ~a.showExpansionResults /\ a.activeEngine = "none"
  THEN "intro"
  ELSE IF a.activeEngine # "none" THEN a.activeEngine
  ELSE IF a.showExpansionResults THEN "expansion-results"
  ELSE "results"

(* the header shows the Generator and Feedback buttons *)
NavigationShown(a) == ~a.showIntro /\ ~a.showResults /\ ~a.showExpansionResults

(* the header shows the Home button *)
HomeShown(a) == a.showResults \/ a.showExpansionResults \/ a.activeEngine # "none"

(* the setters handleIdeaSubmit calls before its first await *)
SubmittedView(a, idea) ==
  [a EXCEPT !.currentIdea = idea, !.isLoading = TRUE, !.showResults = FALSE,
            !.showExpansionResults = FALSE, !.showIntro = FALSE,
            !.activeEngine = "none", !.analysis = NoAnalysis, !.expandedIdeas = 0]

(* the setters handleExpandedIdeaSelect calls before its first await *)
SelectedView(a, idea) ==
  [a EXCEPT !.currentIdea = idea, !.isLoading = TRUE, !.showExpansionResults = FALSE]

(* setAnalysis, setShowResults(true) and the finally block *)
AnalysedView(a, idea) ==
  [a EXCEPT !.analysis = AnalysisOf(idea), !.showResults = TRUE, !.isLoading = FALSE]

(* setExpandedIdeas, setShowExpansionResults(true) and the finally block *)
ExpandedView(a, idea) ==
  [a EXCEPT !.expandedIdeas = idea, !.showExpansionResults = TRUE, !.isLoading = FALSE]

InitView ==
  /\ apiKey = "valid"
  /\ pc = "idle"
  /\ rawInput = <<>>
  /\ validation = Undefined
  /\ reply = NoReply
  /\ requests = 0
  /\ result = NoResult
  /\ ideas = <<>>
  /\ query = ""
  /\ search = <<>>
  /\ clusters = <<>>
  /\ ideaData = Undefined
  /\ maturityReply = NoReply
  /\ analysis = NoResult
  /\ HookUnused
  /\ ParseUnused
  /\ StoreUnused
  /\ NotifyUnused
  /\ ui = InitialView
  /\ inFlight = {}
  /\ submissions = 0

notViewVars ==
  <<pipelineVars, pc, result, indexVars, appVars, hookVars, parseVars, storeVars,
    notifyVars>>

(* IntroSection offers the analyzer and the expansion engine, the header   *)
(* the generator and feedback                                              *)
HandleEngineSelect ==
  /\ \E engine \in {"analyzer", "expansion", "generator", "feedback"} :
       /\ \/ View(ui) = "intro" /\ engine \in {"analyzer", "expansion"}
          \/ NavigationShown(ui) /\ engine \in {"generator", "feedback"}
       /\ ui' = [ui EXCEPT !.showIntro = FALSE, !.activeEngine = engine]
  /\ UNCHANGED <<inFlight, submissions, notViewVars>>

HandleStartOver ==
  /\ HomeShown(ui)
  /\ ui' = InitialView
  /\ UNCHANGED <<inFlight, submissions, notViewVars>>

(* IdeaInputForm and IdeaExpansionForm submit when isLoading is false;     *)
(* handleIdeaSubmit up to the awaited processNewIdea                       *)
HandleIdeaSubmit ==
  /\ View(ui) \in {"analyzer", "expansion"}
  /\ ~ui.isLoading
  /\ submissions < MaxSubmissions
  /\ inFlight' = inFlight \cup
                   { [idea |-> submissions + 1, isExpansion |-> View(ui) = "expansion",
                      at |-> "processNewIdea"] }
  /\ ui' = SubmittedView(ui, submissions + 1)
  /\ submissions' = submissions + 1
  /\ UNCHANGED notViewVars

(* IdeaExpansionResults offers the concepts when isLoading is false;       *)
(* handleExpandedIdeaSelect up to the awaited processNewIdea               *)
HandleExpandedIdeaSelect ==
  /\ View(ui) = "expansion-results"
  /\ ~ui.isLoading
  /\ ui.expandedIdeas # 0
  /\ submissions < MaxSubmissions
  /\ inFlight' = inFlight \cup
                   { [idea |-> submissions + 1, isExpansion |-> FALSE,
                      at |-> "processNewIdea"] }
  /\ ui' = SelectedView(ui, submissions + 1)
  /\ submissions' = submissions + 1
  /\ UNCHANGED notViewVars

(* processNewIdea resolved for one of the waiting handlers: an expansion   *)
(* is shown, an analysis request goes on to analyzeMaturity                *)
ProcessNewIdeaResolved ==
  /\ \E s \in inFlight :
       /\ s.at = "processNewIdea"
       /\ IF s.isExpansion
          THEN /\ ui' = ExpandedView(ui, s.idea)
               /\ inFlight' = inFlight \ {s}
          ELSE /\ ui' = ui
               /\ inFlight' = (inFlight \ {s}) \cup {[s EXCEPT !.at = "analyzeMaturity"]}
  /\ UNCHANGED <<submissions, notViewVars>>

(* analyzeMaturity resolved for one of the waiting handlers *)
AnalyzeMaturityResolved ==
  /\ \E s \in inFlight :
       /\ s.at = "analyzeMaturity"
       /\ ui' = AnalysedView(ui, s.idea)
       /\ inFlight' = inFlight \ {s}
  /\ UNCHANGED <<submissions, notViewVars>>

NextView ==
  \/ HandleEngineSelect
  \/ HandleStartOver
  \/ HandleIdeaSubmit
  \/ HandleExpandedIdeaSelect
  \/ ProcessNewIdeaResolved
  \/ AnalyzeMaturityResolved

SpecView == InitView /\ [][NextView]_vars

(* ---------------------------------------------------------------------- *)
(* MemoryService.getMemoryInsights                                          *)
(* ---------------------------------------------------------------------- *)

MaturityScores == {30, 60, 80}

(* an idea as far as getMemoryInsights reads it; the ids number the ideas   *)
(* in the order of the array handed in; stale: updatedAt is more than      *)
(* three days back                                                         *)
ScoredIdeaLists ==
  UNION { { l \in [1..n -> [id : 1..n, maturityScore : MaturityScores, stale : BOOLEAN]] :
              \A k \in 1..n : l[k].id = k } : n \in 0..MaxIdeas }

(* Array.prototype.sort((a, b) => b.maturityScore - a.maturityScore): in   *)
(* place, stable, the first k items of the list                            *)
RECURSIVE SortedByMaturity(_, _)
SortedByMaturity(list, k) ==
  IF k = 0 THEN <<>>
  ELSE SelectSeq(SortedByMaturity(list, k - 1),
                 LAMBDA i : i.maturityScore >= list[k].maturityScore)
       \o <<list[k]>>
       \o SelectSeq(SortedByMaturity(list, k - 1),
                    LAMBDA i : i.maturityScore < list[k].maturityScore)

(* the filter of needsAttentionIdeas, applied after the sort *)
NeedsAttention(list) == SelectSeq(list, LAMBDA i : i.maturityScore < 50 /\ i.stale)

InitInsights ==
  /\ apiKey = "valid"
  /\ pc = "idle"
  /\ rawInput = <<>>
  /\ validation = Undefined
  /\ reply = NoReply
  /\ requests = 0
  /\ result = NoResult
  /\ ideas \in ScoredIdeaLists
  /\ query = ""
  /\ search = <<>>
  /\ clusters = <<>>
  /\ ideaData = Undefined
  /\ maturityReply = NoReply
  /\ analysis = NoResult
  /\ HookUnused
  /\ ParseUnused
  /\ StoreUnused
  /\ NotifyUnused
  /\ ViewUnused

(* ideas.length === 0: nothing is read *)
GetMemoryInsightsEmpty ==
  /\ pc = "idle"
  /\ Len(ideas) = 0
  /\ result' = [status |-> "insights", mostDevelopedIdea |-> Undefined,
                needsAttentionIdeas |-> <<>>]
  /\ pc' = "insights"
  /\ UNCHANGED <<pipelineVars, appVars, ideas, query, search, clusters>>
  /\ UNCHANGED <<hookVars, parseVars, storeVars, notifyVars, viewVars>>

(* the filtered copy is sorted for oldestUntouchedIdea, the array itself   *)
(* for mostDevelopedIdea; the filter and the patterns read the array after *)
GetMemoryInsights ==
  /\ pc = "idle"
  /\ Len(ideas) > 0
  /\ ideas' = SortedByMaturity(ideas, Len(ideas))
  /\ result' = [status |-> "insights",
                mostDevelopedIdea |-> SortedByMaturity(ideas, Len(ideas))[1],
                needsAttentionIdeas |-> NeedsAttention(SortedByMaturity(ideas, Len(ideas)))]
  /\ pc' = "insights"
  /\ UNCHANGED <<pipelineVars, appVars, query, search, clusters>>
  /\ UNCHANGED <<hookVars, parseVars, storeVars, notifyVars, viewVars>>

NextInsights == GetMemoryInsightsEmpty \/ GetMemoryInsights

SpecInsights == InitInsights /\ [][NextInsights]_vars

(* ---------------------------------------------------------------------- *)
(* Properties                                                              *)
(* ---------------------------------------------------------------------- *)

(* C1: whenever the input matches one of the nonsensical patterns,         *)
(* validateIdeaQuality reports isNonsensical and a qualityScore from 3 to  *)
(* 15, whatever else the text contains. Checked under SpecScore.           *)
C1_NonsensicalPatternVerdict ==
  (pc # "input" /\ MatchesNonsensical(rawInput))
    => /\ validation.isNonsensical
       /\ validation.qualityScore >= 3
       /\ validation.qualityScore <= 15

(* a text with a nonsensical pattern and a legitimate one, at the top score *)
C1_Witness ==
  /\ pc = "validated"
  /\ MatchesNonsensical(rawInput)
  /\ MatchesLegitimate(rawInput)
  /\ validation.isNonsensical
  /\ validation.qualityScore = 15

(* C2 as stated: a text matching a legitimate-business pattern and no      *)
(* nonsensical pattern scores at least 50, for every length, word shape    *)
(* and character repetition. Checked under SpecScore.                      *)
C2_LegitimateScoresAtLeast50 ==
  (pc # "input" /\ MatchesLegitimate(rawInput) /\ ~MatchesNonsensical(rawInput))
    => validation.qualityScore >= 50

(* C2 amended: a text matching a legitimate-business pattern and no        *)
(* nonsensical pattern, whose non-blank characters number at least 1.5     *)
(* times its words, scores at least 50.                                    *)
C2_LegitimateScoresAtLeast50UnlessShortWords ==
  (/\ pc # "input"
   /\ MatchesLegitimate(rawInput)
   /\ ~MatchesNonsensical(rawInput)
   /\ 2 * NonBlankLength(rawInput) >= 3 * WordCount(rawInput))
    => validation.qualityScore >= 50

(* a legitimate text the gibberish check has penalised for a repeated run  *)
C2_Witness ==
  /\ pc = "validated"
  /\ MatchesLegitimate(rawInput)
  /\ ~MatchesNonsensical(rawInput)
  /\ HasRepeatedRun(rawInput, 5)
  /\ 2 * NonBlankLength(rawInput) >= 3 * WordCount(rawInput)
  /\ ~validation.isNonsensical
  /\ validation.qualityScore >= 50

(* C3: in every verdict of validateIdeaQuality, isNonsensical implies a    *)
(* qualityScore of at most 15, and isLegitimate without isNonsensical      *)
(* implies a qualityScore of at least 50. Checked under SpecScore.         *)
C3_VerdictBands ==
  pc # "input"
    => /\ validation.isNonsensical => validation.qualityScore <= 15
       /\ (validation.isLegitimate /\ ~validation.isNonsensical)
            => validation.qualityScore >= 50

(* a verdict that is both legitimate and nonsensical, scored 8 *)
C3_Witness ==
  /\ pc = "validated"
  /\ validation.isNonsensical
  /\ validation.isLegitimate
  /\ validation.qualityScore = 8

(* C4: calculateBalancedScore and calculateBalancedMaturityScore return a  *)
(* value strictly between 0 and 100 for every verdict, every assessment    *)
(* and every self-reported score. Checked under SpecScore.                 *)
C4_ScoresWithinPercentRange ==
  pc = "scored" => (result.score > 0 /\ result.score < 100)

(* a maturity score computed from a self-reported score outside 0..100 *)
C4_Witness ==
  /\ pc = "scored"
  /\ result.by = "calculateBalancedMaturityScore"
  /\ reply.body.score = -50
  /\ ~validation.isLegitimate
  /\ ~validation.isNonsensical
  /\ result.score = 25

(* C6: findIdeaByQuery returns null whenever the query is empty or blank   *)
(* or the list is empty; otherwise it returns null or an idea of the list  *)
(* it was given. Checked under SpecIndex.                                  *)
C6_QueryReturnsNullOrListElement ==
  pc = "queried"
    => /\ (Trim(query) = "" \/ Len(ideas) = 0) => result = Undefined
       /\ result # Undefined => \E i \in DOMAIN ideas : ideas[i] = result

(* a blank query against a list that holds ideas *)
C6_Witness ==
  /\ pc = "queried"
  /\ query = "   "
  /\ Len(ideas) > 0
  /\ result = Undefined

(* C7: whatever the fuzzy search returns, no idea id appears in two        *)
(* clusters of findClusters nor twice within one. Checked under SpecIndex. *)
C7_ClustersDisjoint ==
  pc = "clustered"
    => \A c1, c2 \in DOMAIN clusters :
         \A i \in DOMAIN clusters[c1].ideaIds, j \in DOMAIN clusters[c2].ideaIds :
           (c1 # c2 \/ i # j) => clusters[c1].ideaIds[i] # clusters[c2].ideaIds[j]

InSomeCluster(id) ==
  \E c \in DOMAIN clusters : \E i \in DOMAIN clusters[c].ideaIds : clusters[c].ideaIds[i] = id

(* an idea left unclustered although its search returned another idea,     *)
(* one an earlier cluster had taken                                        *)
C7_Witness ==
  /\ pc = "clustered"
  /\ Len(ideas) >= 2
  /\ \E j \in DOMAIN ideas :
       /\ ~InSomeCluster(ideas[j].id)
       /\ \E k \in DOMAIN search[j] :
            /\ search[j][k].id # ideas[j].id
            /\ InSomeCluster(search[j][k].id)

(* C8: for a non-expansion input judged legitimate and not nonsensical the *)
(* maturityScore of the record processIdeaWithAI returns is in 55..85 on   *)
(* every path: parsed reply, unparseable reply, failed call.               *)
C8_LegitimateIdeaBand ==
  (/\ pc = "done"
   /\ ~isExpansionRequest(rawInput)
   /\ validation.isLegitimate
   /\ ~validation.isNonsensical)
    => /\ result.structuredIdea # Undefined
       /\ result.structuredIdea.maturityScore >= 55
       /\ result.structuredIdea.maturityScore <= 85

(* a legitimate idea the model assessed as nonsensical and unprofitable *)
C8_Witness ==
  /\ pc = "done"
  /\ ~isExpansionRequest(rawInput)
  /\ validation.isLegitimate
  /\ ~validation.isNonsensical
  /\ reply.kind = "parsed"
  /\ reply.body.businessAssessment # NoAssessment
  /\ reply.body.businessAssessment.legitimacy = "nonsensical"
  /\ reply.body.businessAssessment.profitabilityPotential = "impossible"
  /\ result.structuredIdea.maturityScore = 55

(* the text validateIdeaQuality judges for the request: the rough idea of  *)
(* an expansion request, the submitted text otherwise                      *)
JudgedNonsensical ==
  IF isExpansionRequest(rawInput)
  THEN \E rnd \in DrawsFor(RemovePrefix(rawInput)) :
         validateIdeaQuality(RemovePrefix(rawInput), rnd).isNonsensical
  ELSE validation.isNonsensical

(* C9: when the submitted text (the rough idea, for an expansion request)  *)
(* is flagged nonsensical, processIdeaWithAI completes without a request   *)
(* to the external endpoint, and in the analysis branch the maturityScore  *)
(* is in 3..15.                                                            *)
C9_NonsensicalSkipsExternalCall ==
  (pc # "idle" /\ JudgedNonsensical)
    => /\ pc = "done"
       /\ requests = 0
       /\ ~isExpansionRequest(rawInput)
            => /\ result.structuredIdea.maturityScore >= 3
               /\ result.structuredIdea.maturityScore <= 15

(* a nonsensical analysis request completed with a usable key and no call *)
C9_Witness ==
  /\ pc = "done"
  /\ apiKey = "valid"
  /\ ~isExpansionRequest(rawInput)
  /\ validation.isNonsensical
  /\ requests = 0
  /\ result.structuredIdea.maturityScore \in 3..15

(* C10 as stated: after a non-2xx answer processIdeaWithAI resolves with a *)
(* fallback record whose developmentStage is 'raw' and whose suggestion    *)
(* list is non-empty.                                                      *)
C10_ErrorStatusYieldsFallbackRecord ==
  (pc = "done" /\ reply.kind = "status")
    => /\ result.status = "resolved"
       /\ result.structuredIdea # Undefined
       /\ result.structuredIdea.developmentStage = "raw"
       /\ Len(result.suggestions) > 0

(* C10 amended: after a non-2xx answer to a request that is not an         *)
(* expansion request, processIdeaWithAI resolves with a fallback record    *)
(* whose developmentStage is 'raw' and whose suggestion list is non-empty; *)
(* an expansion request resolves too, with expanded ideas.                 *)
C10_ErrorStatusYieldsFallbackUnlessExpansion ==
  (pc = "done" /\ reply.kind = "status")
    => /\ result.status = "resolved"
       /\ ~isExpansionRequest(rawInput)
            => /\ result.structuredIdea # Undefined
               /\ result.structuredIdea.developmentStage = "raw"
               /\ Len(result.suggestions) > 0
       /\ isExpansionRequest(rawInput) => result.expandedIdeas > 0

(* an analysis request answered 401 and resolved with suggestions *)
C10_Witness ==
  /\ pc = "done"
  /\ reply.kind = "status"
  /\ reply.status = 401
  /\ ~isExpansionRequest(rawInput)
  /\ result.structuredIdea.developmentStage = "raw"
  /\ Len(result.suggestions) > 0

(* C11: for a collection of exactly two ideas where the search for one of  *)
(* them returns the other, findClusters returns exactly one cluster, whose *)
(* ideaIds are exactly the two ids. Checked under SpecIndex.               *)
C11_TwoSimilarIdeasOneCluster ==
  (/\ pc = "clustered"
   /\ Len(ideas) = 2
   /\ \E i \in DOMAIN search : \E k \in DOMAIN search[i] : search[i][k].id # ideas[i].id)
    => /\ Len(clusters) = 1
       /\ Len(clusters[1].ideaIds) = 2
       /\ Range(clusters[1].ideaIds) = {ideas[1].id, ideas[2].id}

(* the search for the first idea finds nothing, the one for the second    *)
(* finds the first: the cluster is anchored at the second                  *)
C11_Witness ==
  /\ pc = "clustered"
  /\ Len(ideas) = 2
  /\ search = << <<>>, <<ideas[1]>> >>
  /\ Len(clusters) = 1
  /\ clusters[1].ideaIds = <<ideas[2].id, ideas[1].id>>

(* C12 as stated: a configuration error is the only failure that           *)
(* processIdeaWithAI and analyzeIdeaMaturity surface to their caller:      *)
(* the operation rejects exactly when the key check of makeAPICall threw.  *)
(* Checked under SpecApp.                                                  *)
C12_OnlyConfigurationErrorSurfaces ==
  /\ pc = "done" => (result.status = "rejected" <=> reply = ConfigurationFailure)
  /\ pc = "analysed" => (analysis.status = "rejected" <=> maturityReply = ConfigurationFailure)

(* C13: with a key that is missing or lacks the required prefix            *)
(* makeAPICall throws before fetch: no request is ever sent with such a    *)
(* key.                                                                    *)
C13_NoRequestWithoutUsableKey ==
  ConfigurationError(apiKey) => requests = 0

(* a text worth sending, stopped by the key check *)
C13_Witness ==
  /\ pc = "done"
  /\ apiKey = "malformed"
  /\ reply = ConfigurationFailure
  /\ ~validation.isNonsensical
  /\ requests = 0

(* C14 as stated: one submission handled by handleIdeaSubmit causes at     *)
(* most one request to the external endpoint. Checked under SpecApp.       *)
C14_AtMostOneRequestPerSubmission ==
  requests <= 1

(* C14 amended: one submission causes at most two requests, at most one by *)
(* processIdeaWithAI and at most one by analyzeIdeaMaturity; an expansion  *)
(* submission, which is not analysed for maturity, causes at most one.     *)
C14_AtMostTwoRequestsPerSubmission ==
  /\ requests <= 2
  /\ pc \in {"idle", "analysis_wait", "expand_wait", "done"} => requests <= 1
  /\ (pc # "idle" /\ isExpansionRequest(rawInput)) => requests <= 1

(* a submission shown after both calls were made *)
C14_Witness ==
  /\ pc = "shown"
  /\ ~isExpansionRequest(rawInput)
  /\ maturityReply.kind = "parsed"
  /\ requests = 2

Populated(a) ==
  /\ a.status = "resolved"
  /\ ~a.score.nan
  /\ a.strengths \in {"reply", "default"}
  /\ a.gaps \in {"reply", "default"}
  /\ a.nextSteps \in {"reply", "default"}
  /\ ~a.marketPotential.score.nan
  /\ ~a.feasibilityScore.overall.nan
  /\ a.recommendations \in {"reconsider", "constructive", "standard", "abandon"}
  /\ a.missingElements.painPoints >= 0

(* C15 as stated: analyzeIdeaMaturity never rejects and returns a fully    *)
(* populated analysis, defaults standing in for whatever the reply lacks   *)
(* or garbles, for every outcome of the call. Checked under SpecMaturity.  *)
C15_AnalysisAlwaysPopulated ==
  pc = "analysed" => Populated(analysis)

(* C16: one invocation of processIdeaWithAI sends at most one request, and *)
(* after a failed call or an unparseable reply the fallback is returned    *)
(* with no further request.                                                *)
C16_NoRetry ==
  /\ requests <= 1
  /\ (pc = "done" /\ (CallThrows(reply) \/ reply.kind \in {"unparseable", "unusable"}))
       => requests = 1

(* the fallback returned after an unparseable reply to the one request *)
C16_Witness ==
  /\ pc = "done"
  /\ reply.kind = "unparseable"
  /\ result.status = "resolved"
  /\ requests = 1

(* C17 as stated: every operation of useEnhancedIdeas that changes the     *)
(* stored collection is followed by a recomputation of the stored clusters *)
(* from the new collection: once no findClusters call is outstanding, the  *)
(* clusters are those of the collection as it stands. Checked under        *)
(* SpecHook.                                                               *)
C17_ClustersFollowCollection ==
  recomputing = <<>> => clusteredFrom = stored

(* C18 as stated: writes to the collection never overlap and no completed  *)
(* write is lost: the stored collection is the one the completed adds,     *)
(* updates and deletes yield when applied in order. Checked under SpecHook.*)
C18_NoCompletedWriteLost ==
  stored = written

(* C19: when the reply holds a well-formed JSON object followed by text    *)
(* that contains a closing brace (for expansions: a well-formed array      *)
(* followed by text that contains a closing bracket), the span handed to   *)
(* JSON.parse is the first balanced span and the parse succeeds, so the    *)
(* reply is not sent to the fallback.                                      *)
C19_FirstBalancedSpanParsed ==
  (pc = "read" /\ JSONThenCloser(content, site)) =>
    /\ jsonString = FirstBalanced(content, site)
    /\ parseOutcome # "SyntaxError"

(* C20: for empty or whitespace-only input (the trimmed text is empty)     *)
(* validateIdeaQuality returns a verdict with qualityScore <= 15 and       *)
(* isValid false, and processIdeaWithAI resolves with a record.            *)
C20_EmptyInputScoredLow ==
  (pc # "idle" /\ rawInput = <<>>)
    => /\ pc = "done"
       /\ validation # Undefined
       /\ validation.qualityScore <= 15
       /\ ~validation.isValid
       /\ result.status = "resolved"
       /\ result.structuredIdea # Undefined

(* the empty text went through processIdeaWithAI and was scored 8 *)
C20_Witness ==
  /\ pc = "done"
  /\ rawInput = <<>>
  /\ validation.qualityScore = 8
  /\ validation.isNonsensical
  /\ result.status = "resolved"
  /\ result.structuredIdea.maturityScore = 8

(* C21: when the external assessment carries a disqualifying rating, the   *)
(* score calculateBalancedScore returns respects the cap: at most 10 for   *)
(* profitabilityPotential 'impossible', at most 15 for legitimacy          *)
(* 'nonsensical' or overallViability 'terrible', for every verdict and     *)
(* every combination of the other fields. Checked under SpecScore.         *)
C21_DisqualifyingRatingCaps ==
  (/\ pc = "scored"
   /\ result.by = "calculateBalancedScore"
   /\ reply.body.businessAssessment # NoAssessment)
    => /\ reply.body.businessAssessment.profitabilityPotential = "impossible"
            => result.score <= 10
       /\ reply.body.businessAssessment.legitimacy = "nonsensical"
            => result.score <= 15
       /\ reply.body.businessAssessment.overallViability = "terrible"
            => result.score <= 15

(* C22: persisting the idea collection and loading it again is a round     *)
(* trip: the loaded collection equals the saved one, every date field of   *)
(* every idea (createdAt, updatedAt, lastViewedAt and the dates of its     *)
(* suggestions and existing-product entries) being a timestamp again.      *)
(* Checked under SpecStore.                                                *)
C22_SaveLoadRoundTrip ==
  pc = "loaded" => parsedIdeas = newIdeas

(* the verdict lists the gibberish issue *)
ReportsGibberish == \E k \in DOMAIN validation.issues : validation.issues[k] = IssueGibberish

(* C23: validateIdeaQuality reports excessive character repetition (adds   *)
(* the gibberish issue) exactly when the text contains a run of at least 5 *)
(* identical consecutive characters: a run of exactly 5 triggers it and a  *)
(* longest run of 4 does not. Stated for the texts the repetition check    *)
(* alone decides: no nonsensical pattern matches, and the words average    *)
(* two characters or more. Checked under SpecRepeats.                      *)
C23_RunOfFiveIsExcessive ==
  (/\ pc = "validated"
   /\ ~MatchesNonsensical(rawInput)
   /\ NonBlankLength(rawInput) >= 2 * WordCount(rawInput))
    => (ReportsGibberish <=> LongestRun(rawInput) >= 5)

(* C24: for every idea whose description validateIdeaQuality marks         *)
(* legitimate and not nonsensical, analyzeIdeaMaturity returns a score of  *)
(* at least 50 on every path: reply parsed (any self-reported score),      *)
(* reply unparseable, call failed. Checked under SpecMaturity.             *)
C24_LegitimateMaturityFloor ==
  (/\ pc = "analysed"
   /\ DescriptionVerdict(ideaData).isLegitimate
   /\ ~DescriptionVerdict(ideaData).isNonsensical)
    => IF analysis.score.nan THEN FALSE ELSE analysis.score.value >= 50

(* C25: after any sequence of addNotification, generateSmartNotifications  *)
(* and markAsRead calls the stored list holds at most 50 entries, newest   *)
(* first, and what an addition beyond 50 drops is the oldest entries: the  *)
(* list is the latest notifications created, the one just added at its     *)
(* head. Checked under SpecNotify.                                         *)
C25_LatestFiftyNewestFirst ==
  /\ Len(notifications) <= KeepLatest
  /\ Len(notifications) = Min(created, KeepLatest)
  /\ \A k \in DOMAIN notifications : notifications[k].id = created - k + 1

(* additions beyond the fiftieth, made by both operations, with one entry  *)
(* marked read                                                             *)
C25_Witness ==
  /\ created = KeepLatest + MaxAdded
  /\ Len(notifications) = KeepLatest
  /\ notifications[1].id = created
  /\ notifications[KeepLatest].id = MaxAdded + 1
  /\ \E k \in DOMAIN notifications : notifications[k].read

(* fuse.search finding every idea of the list similar to every other *)
AllSimilar(list) == [i \in DOMAIN list |-> list]

(* the clusters saveClusters stored last, for ideas that all resemble one  *)
(* another                                                                 *)
StoredClusters == findClusters(clusteredFrom, AllSimilar(clusteredFrom))

(* C26 as stated: once no cluster computation is pending, every idea id    *)
(* listed in a stored cluster is the id of an idea of the stored           *)
(* collection, for every interleaving of addIdea and deleteIdea calls.     *)
(* Checked under SpecHook.                                                 *)
C26_ClustersNameStoredIdeas ==
  recomputing = <<>>
    => \A c \in DOMAIN StoredClusters :
         \A k \in DOMAIN StoredClusters[c].ideaIds :
           \E j \in DOMAIN stored : stored[j].id = StoredClusters[c].ideaIds[k]

(* C27 as stated: whenever the results view is shown with isLoading false, *)
(* the analysis it displays was computed for the idea held in currentIdea, *)
(* also when a second idea is submitted while an earlier submission is in  *)
(* flight, whichever response arrives last. Checked under SpecView.        *)
C27_ShownAnalysisIsOfCurrentIdea ==
  (View(ui) = "results" /\ ~ui.isLoading /\ ui.analysis # NoAnalysis)
    => ui.analysis = AnalysisOf(ui.currentIdea)

(* C28 as stated: no verdict validateIdeaQuality returns has isNonsensical *)
(* and isLegitimate both true. Checked under SpecScore.                    *)
C28_NonsensicalExcludesLegitimate ==
  pc # "input" => ~(validation.isNonsensical /\ validation.isLegitimate)

(* C29 as stated: getMemoryInsights is read-only with respect to its       *)
(* argument: after the call the array holds the same ideas in the same     *)
(* order as before, the order the ids number. Checked under SpecInsights.  *)
C29_InsightsLeaveArgumentAlone ==
  pc = "insights" => \A k \in DOMAIN ideas : ideas[k].id = k

(* C30: whatever the input and however the external call settles,          *)
(* processIdeaWithAI resolves with isExpansion true exactly when the input *)
(* contains 'expand this rough idea'; expandedIdeas is there when          *)
(* isExpansion is true and structuredIdea when it is false, which is what  *)
(* processNewIdea dereferences. Checked under Spec.                        *)
C30_ResolvesByRequestKind ==
  pc = "done" =>
    /\ result.status = "resolved"
    /\ result.isExpansion = isExpansionRequest(rawInput)
    /\ result.isExpansion => result.expandedIdeas \in Nat
    /\ ~result.isExpansion => result.structuredIdea # Undefined

(* an expansion request whose external call failed at the network, and    *)
(* resolved with fallback concepts                                         *)
C30_Witness ==
  /\ pc = "done"
  /\ reply.kind = "network"
  /\ isExpansionRequest(rawInput)
  /\ result.isExpansion
  /\ result.expandedIdeas > 0

====
